---- MODULE Spec2Model ----
(***************************************************************************)
(* Market coordinator of the smart-energy-grid multi-agent simulator:     *)
(* GridNodeAgent with its Receiver and RoundOrchestrator behaviours.       *)
(*                                                                         *)
(* Units.  Energy is counted in hundredths of a kWh (0.01 kWh = 1), money  *)
(* in cents per kWh, time in whole seconds.  The thresholds of the code    *)
(* (0.01 kWh, 0.5 kWh, 3.0 kWh, 99 %) become 1, 50, 300 and the integer    *)
(* comparison 100*a >= 99*b.                                               *)
(*                                                                         *)
(* auction_log holds the market events (offer, late, request, declined,    *)
(* transmission_limit, match); the register, status, production and        *)
(* battery_status events, which no step of the coordinator reads, are left *)
(* out.  sent holds the messages of the current round.                     *)
(***************************************************************************)
EXTENDS Integers, Sequences, FiniteSets, TLC

\* ------------------------------------------------------------------------
\* Bounds of the model
\* ------------------------------------------------------------------------
MaxRounds == 2
MaxRecv == 4
MaxFailureRounds == 2
MaxLedger == 2
ClockRounds == 20

\* ------------------------------------------------------------------------
\* Participants
\* ------------------------------------------------------------------------
Households == {"h1", "h2"}
Producers == {"p1", "p2"}
Storages == {"s1"}
Agents == Households \cup Producers \cup Storages

\* Python compares JIDs as strings; this is that order on the model's JIDs.
JidRank == [a \in Agents |->
              CASE a = "h1" -> 1 [] a = "h2" -> 2 [] a = "p1" -> 3
                [] a = "p2" -> 4 [] a = "s1" -> 5]

NoLimit == -1
NoRound == 0

Min(a, b) == IF a <= b THEN a ELSE b
Max(a, b) == IF a >= b THEN a ELSE b

\* ------------------------------------------------------------------------
\* Configuration values
\* ------------------------------------------------------------------------
OFFERS_TIMEOUT == 10
TRANSMISSION_LIMIT_KW == 300
ROUND_SLEEP_SECONDS == 10
STATUS_GRACE_S == 2
REPORT_INTERVAL_ROUNDS == 5
BATTERY_CAPACITY_KWH == 500
BATTERY_CHARGE_RATE_KW == 200

\* ------------------------------------------------------------------------
\* Python dict as an insertion-ordered sequence of [k, v] entries
\* ------------------------------------------------------------------------
DictKeys(d) == {d[i].k : i \in 1..Len(d)}
DictHas(d, key) == key \in DictKeys(d)
DictIdx(d, key) == CHOOSE i \in 1..Len(d) : d[i].k = key
DictGet(d, key) == d[DictIdx(d, key)].v
DictPut(d, key, val) ==
    IF DictHas(d, key)
    THEN [d EXCEPT ![DictIdx(d, key)] = [k |-> key, v |-> val]]
    ELSE Append(d, [k |-> key, v |-> val])

\* defaultdict access: the value under key, or the default
RoundGet(f, r, dflt) == IF r \in DOMAIN f THEN f[r] ELSE dflt
FnPut(f, r, val) == [x \in DOMAIN f \cup {r} |-> IF x = r THEN val ELSE f[x]]

VARIABLES
    pc, now, wake_ts,
    round_id, round_start_ts, round_deadline_ts,
    round_counter, sim_hour, sim_day,
    known_households, known_producers, known_storage,
    households_state, producers_state, storage_state,
    any_producer_failed,
    status_seen_round, offers_round, requests_round,
    declined_round, invited_round,
    auction_log,
    transmission_limit_kw, agent_limits,
    producer_failure_probability, failure_rounds_range,
    sellers, reqs, seller_remaining, buyer_received_kw, buyer_caps,
    buyer_fulfillment, tally, matches, ext_round,
    external_grid_buy_price, external_grid_sell_price, ext_grid,
    rounds_data, sent,
    recv_budget, round_limit, failure_watch, recv_note,
    storage_unit, env_served, report_pending

ledgerVars == <<status_seen_round, offers_round, requests_round,
                declined_round, invited_round>>
storeVars == <<households_state, producers_state, storage_state,
               any_producer_failed>>
knownVars == <<known_households, known_producers, known_storage>>
clockVars == <<round_counter, sim_hour, sim_day>>
configVars == <<transmission_limit_kw, agent_limits,
                producer_failure_probability, failure_rounds_range>>
roundVars == <<sellers, reqs, seller_remaining, buyer_received_kw, buyer_caps,
               buyer_fulfillment, tally, matches, ext_round>>
extVars == <<external_grid_buy_price, external_grid_sell_price, ext_grid>>
\* the other agents: the storage units (StorageManagerAgent), the number of
\* update requests the environment agent has served, and per participant the
\* number of its reports still on their way to the coordinator
peerVars == <<storage_unit, env_served, report_pending>>
recvVars == <<recv_budget, round_limit, failure_watch, recv_note, peerVars>>

vars == <<pc, now, wake_ts, round_id, round_start_ts, round_deadline_ts,
          clockVars, knownVars, storeVars, ledgerVars, auction_log,
          configVars, roundVars, extVars, rounds_data, sent, recvVars>>

\* ------------------------------------------------------------------------
\* Records written by the coordinator
\* ------------------------------------------------------------------------
NoPrice == -1
NoPeer == "-"

\* GridNodeAgent._add_event: one entry of auction_log
Event(event_type, agent_jid, a, b, peer, price, rid) ==
    [event |-> event_type, agent |-> agent_jid, a |-> a, b |-> b,
     peer |-> peer, price |-> price, round_id |-> rid]

\* control_command sent to a buyer for one purchase
ControlCommand(buyer, rid, kw, price, from, partial, total_received, total_needed) ==
    [type |-> "control_command", to |-> buyer, round_id |-> rid, kw |-> kw,
     price |-> price, peer |-> from, partial |-> partial,
     total_received |-> total_received, total_needed |-> total_needed,
     flag |-> FALSE]

\* offer_accept sent to a seller for one purchase
OfferAccept(seller, rid, buyer, kw, price) ==
    [type |-> "offer_accept", to |-> seller, round_id |-> rid, kw |-> kw,
     price |-> price, peer |-> buyer, partial |-> FALSE,
     total_received |-> 0, total_needed |-> 0, flag |-> FALSE]

\* faulty variant: the invitation does not carry the failure flag
CallForOffers_NoFailureFlag(jid, rid, deadline_ts, producers_failed) ==
    [type |-> "call_for_offers", to |-> jid, round_id |-> rid, kw |-> deadline_ts,
     price |-> NoPrice, peer |-> NoPeer, partial |-> FALSE,
     total_received |-> 0, total_needed |-> 0, flag |-> FALSE]

\* call_for_offers sent by InviteBurstSend
CallForOffers(jid, rid, deadline_ts, producers_failed) ==
    [type |-> "call_for_offers", to |-> jid, round_id |-> rid, kw |-> deadline_ts,
     price |-> NoPrice, peer |-> NoPeer, partial |-> FALSE,
     total_received |-> 0, total_needed |-> 0, flag |-> producers_failed]

\* request_environment_update sent to the environment agent
EnvRequest(hour) ==
    [type |-> "request_environment_update", to |-> "env", round_id |-> NoRound,
     kw |-> hour, price |-> NoPrice, peer |-> NoPeer, partial |-> FALSE,
     total_received |-> 0, total_needed |-> 0, flag |-> FALSE]

\* ------------------------------------------------------------------------
\* CapacityEnforcer: GridNodeAgent.get_operational_limit_info
\* ------------------------------------------------------------------------
RoleOf(a) ==
    IF a \in DOMAIN households_state
    THEN (IF households_state[a].is_prosumer THEN "prosumer" ELSE "consumer")
    ELSE IF DictHas(producers_state, a) THEN "producer"
    ELSE IF a \in DOMAIN storage_state THEN "storage"
    ELSE "none"

InternalUse(a) ==
    LET h == households_state[a]
        surplus == Max(0, h.prod_kwh - h.demand_kwh)
        planned_battery_charge ==
            Min(Min(surplus, BATTERY_CHARGE_RATE_KW),
                Max(0, BATTERY_CAPACITY_KWH - h.battery_kwh))
    IN  Min(h.prod_kwh, h.demand_kwh) + planned_battery_charge

EffectiveLimit(a, op) ==
    LET role == RoleOf(a)
        base_limit == IF role = "none" THEN NoLimit ELSE agent_limits[role]
    IN  IF base_limit = NoLimit THEN NoLimit
        ELSE IF role = "prosumer" /\ op = "sell"
             THEN Max(0, base_limit - InternalUse(a))
             ELSE base_limit

\* ------------------------------------------------------------------------
\* Matching (RoundOrchestrator.run, "Matching algorithm with partial
\* allocation support")
\* ------------------------------------------------------------------------

\* deliverable amount of one offer under the seller's limit
SellerDeliverable(seller, offer_amount) ==
    LET limit_value == EffectiveLimit(seller, "sell")
        deliverable_offer == IF limit_value # NoLimit
                             THEN Min(offer_amount, limit_value)
                             ELSE offer_amount
    IN  Max(0, deliverable_offer)

SellerInitialDeliverable(offers) ==
    [s \in DictKeys(offers) |-> SellerDeliverable(s, DictGet(offers, s).offer_kwh)]

\* deliverable cap of one request under the buyer's limit
BuyerDeliverableCap(buyer, need_kwh) ==
    LET limit_value == EffectiveLimit(buyer, "buy")
        deliverable_cap == IF limit_value # NoLimit
                           THEN Min(need_kwh, limit_value)
                           ELSE need_kwh
    IN  Max(0, deliverable_cap)

\* faulty variant: the price of the offer is not looked at
AvailableSellers_AnyPrice(offers, remaining, price_max) ==
    {i \in 1..Len(offers) : remaining[offers[i].k] > 1}

\* the offers a buyer can afford, as indices into the offers dict
AvailableSellers(offers, remaining, price_max) ==
    {i \in 1..Len(offers) :
        /\ remaining[offers[i].k] > 1
        /\ offers[i].v.price <= price_max}

\* faulty variant: a sort on the name of the seller alone
SortsBefore_ByName(offers, i, j) == JidRank[offers[i].k] < JidRank[offers[j].k]

\* faulty variant: a sort on the price alone, ties left in arrival order
SortsBefore_ArrivalTies(offers, i, j) ==
    \/ offers[i].v.price < offers[j].v.price
    \/ /\ offers[i].v.price = offers[j].v.price
       /\ i < j

\* tuple order of available_sellers.sort(): (price, seller)
SortsBefore(offers, i, j) ==
    \/ offers[i].v.price < offers[j].v.price
    \/ /\ offers[i].v.price = offers[j].v.price
       /\ JidRank[offers[i].k] < JidRank[offers[j].k]

RECURSIVE SortSellers(_, _)
SortSellers(offers, S) ==
    IF S = {} THEN <<>>
    ELSE LET m == CHOOSE i \in S : \A j \in S \ {i} : SortsBefore(offers, i, j)
         IN  <<m>> \o SortSellers(offers, S \ {m})

\* faulty variant: the seller is debited the amount before the transmission cut
BuyStep_DebitsRaw(entry, rid, buyer, deliverable_cap, st) ==
    LET seller == entry.k
        price == entry.v.price
        available == st.seller_remaining[seller]
        remaining_deliverable == Max(0, deliverable_cap - st.total_bought)
        transmission_remaining == Max(0, transmission_limit_kw - st.total_bought)
        raw_allocation == Min(available, remaining_deliverable)
        amount == Min(raw_allocation, transmission_remaining)
    IN  IF remaining_deliverable <= 0 \/ transmission_remaining <= 0
        THEN [st EXCEPT !.brk = TRUE]
        ELSE IF raw_allocation <= 0 THEN st
        ELSE IF amount <= 0 THEN [st EXCEPT !.brk = TRUE]
        ELSE [st EXCEPT
                !.seller_remaining[seller] = @ - raw_allocation,
                !.total_bought = @ + amount,
                !.total_cost = @ + amount * price,
                !.purchases = Append(@, [buyer |-> buyer, seller |-> seller,
                                         kwh |-> amount, price |-> price]),
                !.events = IF amount < raw_allocation
                           THEN Append(@, Event("transmission_limit", buyer,
                                                raw_allocation, amount, seller,
                                                price, rid))
                           ELSE @]

\* faulty variant: the allocation is not cut to the transmission limit
BuyStep_NoTransmission(entry, rid, buyer, deliverable_cap, st) ==
    LET seller == entry.k
        price == entry.v.price
        available == st.seller_remaining[seller]
        remaining_deliverable == Max(0, deliverable_cap - st.total_bought)
        transmission_remaining == Max(0, transmission_limit_kw - st.total_bought)
        raw_allocation == Min(available, remaining_deliverable)
        amount == raw_allocation
    IN  IF remaining_deliverable <= 0 \/ transmission_remaining <= 0
        THEN [st EXCEPT !.brk = TRUE]
        ELSE IF raw_allocation <= 0 THEN st
        ELSE IF amount <= 0 THEN [st EXCEPT !.brk = TRUE]
        ELSE [st EXCEPT
                !.seller_remaining[seller] = @ - amount,
                !.total_bought = @ + amount,
                !.total_cost = @ + amount * price,
                !.purchases = Append(@, [buyer |-> buyer, seller |-> seller,
                                         kwh |-> amount, price |-> price]),
                !.events = IF amount < raw_allocation
                           THEN Append(@, Event("transmission_limit", buyer,
                                                raw_allocation, amount, seller,
                                                price, rid))
                           ELSE @]

\* faulty variant: the whole remainder of the seller is taken
BuyStep_TakesAll(entry, rid, buyer, deliverable_cap, st) ==
    LET seller == entry.k
        price == entry.v.price
        available == st.seller_remaining[seller]
        remaining_deliverable == Max(0, deliverable_cap - st.total_bought)
        transmission_remaining == Max(0, transmission_limit_kw - st.total_bought)
        raw_allocation == available
        amount == Min(raw_allocation, transmission_remaining)
    IN  IF remaining_deliverable <= 0 \/ transmission_remaining <= 0
        THEN [st EXCEPT !.brk = TRUE]
        ELSE IF raw_allocation <= 0 THEN st
        ELSE IF amount <= 0 THEN [st EXCEPT !.brk = TRUE]
        ELSE [st EXCEPT
                !.seller_remaining[seller] = @ - amount,
                !.total_bought = @ + amount,
                !.total_cost = @ + amount * price,
                !.purchases = Append(@, [buyer |-> buyer, seller |-> seller,
                                         kwh |-> amount, price |-> price]),
                !.events = IF amount < raw_allocation
                           THEN Append(@, Event("transmission_limit", buyer,
                                                raw_allocation, amount, seller,
                                                price, rid))
                           ELSE @]

\* one pass of "for price, seller, offer_data in available_sellers"
BuyStep(entry, rid, buyer, deliverable_cap, st) ==
    LET seller == entry.k
        price == entry.v.price
        available == st.seller_remaining[seller]
        remaining_deliverable == Max(0, deliverable_cap - st.total_bought)
        transmission_remaining == Max(0, transmission_limit_kw - st.total_bought)
        raw_allocation == Min(available, remaining_deliverable)
        amount == Min(raw_allocation, transmission_remaining)
    IN  IF remaining_deliverable <= 0 \/ transmission_remaining <= 0
        THEN [st EXCEPT !.brk = TRUE]
        ELSE IF raw_allocation <= 0 THEN st
        ELSE IF amount <= 0 THEN [st EXCEPT !.brk = TRUE]
        ELSE [st EXCEPT
                !.seller_remaining[seller] = @ - amount,
                !.total_bought = @ + amount,
                !.total_cost = @ + amount * price,
                !.purchases = Append(@, [buyer |-> buyer, seller |-> seller,
                                         kwh |-> amount, price |-> price]),
                !.events = IF amount < raw_allocation
                           THEN Append(@, Event("transmission_limit", buyer,
                                                raw_allocation, amount, seller,
                                                price, rid))
                           ELSE @]

\* faulty variant: the buyer's turn ends after the first seller
BuyLoop_OneSeller(offers, cands, n, rid, buyer, deliverable_cap, st) ==
    IF n > Len(cands) THEN st
    ELSE BuyStep(offers[cands[n]], rid, buyer, deliverable_cap, st)

\* "for price, seller, offer_data in available_sellers", up to its break
RECURSIVE BuyLoop(_, _, _, _, _, _, _)
BuyLoop(offers, cands, n, rid, buyer, deliverable_cap, st) ==
    IF n > Len(cands) \/ st.brk THEN st
    ELSE BuyLoop(offers, cands, n + 1, rid, buyer, deliverable_cap,
                 BuyStep(offers[cands[n]], rid, buyer, deliverable_cap, st))

\* faulty variant: each message carries its own amount as total_received
BuyerMsgs_OwnAmount(purchases, n, rid, total_bought, need_kwh) ==
    [i \in 1..Len(purchases) |->
        ControlCommand(purchases[i].buyer, rid, purchases[i].kwh,
                       purchases[i].price, purchases[i].seller,
                       total_bought < need_kwh, purchases[i].kwh, need_kwh)]

\* "Notify buyer": one control_command per purchase
RECURSIVE BuyerMsgs(_, _, _, _, _)
BuyerMsgs(purchases, n, rid, total_bought, need_kwh) ==
    IF n > Len(purchases) THEN <<>>
    ELSE <<ControlCommand(purchases[n].buyer, rid, purchases[n].kwh,
                          purchases[n].price, purchases[n].seller,
                          total_bought < need_kwh, total_bought, need_kwh)>>
         \o BuyerMsgs(purchases, n + 1, rid, total_bought, need_kwh)

RECURSIVE SellerMsgs(_, _, _)
SellerMsgs(purchases, n, rid) ==
    IF n > Len(purchases) THEN <<>>
    ELSE <<OfferAccept(purchases[n].seller, rid, purchases[n].buyer,
                       purchases[n].kwh, purchases[n].price)>>
         \o SellerMsgs(purchases, n + 1, rid)

\* the body of "for buyer, req_data in reqs" for one buyer
MatchBuyer(offers, rid, buyer, req_data, acc) ==
    LET need_kwh == req_data.need_kwh
        price_max == req_data.price_max
        deliverable_cap == BuyerDeliverableCap(buyer, need_kwh)
        acc1 == [acc EXCEPT !.buyer_caps = FnPut(@, buyer, deliverable_cap)]
        available_sellers == AvailableSellers(offers, acc.seller_remaining, price_max)
        unmatched == [acc1 EXCEPT
                        !.tally.unmatched_count = @ + 1,
                        !.buyer_fulfillment =
                            FnPut(@, buyer, [recv |-> 0, need |-> need_kwh])]
        st == BuyLoop(offers, SortSellers(offers, available_sellers), 1, rid, buyer,
                      deliverable_cap,
                      [total_bought |-> 0, total_cost |-> 0,
                       seller_remaining |-> acc.seller_remaining,
                       purchases |-> <<>>, events |-> <<>>, brk |-> FALSE])
    IN  IF available_sellers = {} THEN unmatched
        ELSE IF st.total_bought > 0
        THEN [acc1 EXCEPT
                !.seller_remaining = st.seller_remaining,
                !.buyer_received_kw = FnPut(@, buyer, st.total_bought),
                !.buyer_fulfillment =
                    FnPut(@, buyer, [recv |-> st.total_bought, need |-> need_kwh]),
                !.tally.matched_count =
                    IF 100 * st.total_bought >= 99 * need_kwh THEN @ + 1 ELSE @,
                !.tally.partial_count =
                    IF 100 * st.total_bought >= 99 * need_kwh THEN @ ELSE @ + 1,
                !.tally.total_traded = @ + st.total_bought,
                !.tally.total_value = @ + st.total_cost,
                !.matches = @ \o st.purchases,
                !.sent = @ \o BuyerMsgs(st.purchases, 1, rid, st.total_bought, need_kwh)
                           \o SellerMsgs(st.purchases, 1, rid),
                !.log = @ \o st.events
                          \o <<Event("match", buyer, st.total_bought, st.total_cost,
                                     NoPeer, NoPrice, rid)>>]
        ELSE unmatched

RECURSIVE MatchLoop(_, _, _, _, _)
MatchLoop(offers, requests, n, rid, acc) ==
    IF n > Len(requests) THEN acc
    ELSE MatchLoop(offers, requests, n + 1, rid,
                   MatchBuyer(offers, rid, requests[n].k, requests[n].v, acc))

ZeroTally == [matched_count |-> 0, partial_count |-> 0, unmatched_count |-> 0,
              total_traded |-> 0, total_value |-> 0]

\* the whole internal matching of one round
RunMatching(offers, requests, rid) ==
    MatchLoop(offers, requests, 1, rid,
              [seller_remaining |-> SellerInitialDeliverable(offers),
               buyer_received_kw |-> [b \in DictKeys(requests) |-> 0],
               buyer_caps |-> <<>>,
               buyer_fulfillment |-> <<>>,
               tally |-> ZeroTally,
               matches |-> <<>>, sent |-> <<>>, log |-> <<>>])


\* ------------------------------------------------------------------------
\* External grid (RoundOrchestrator.run, "External grid interaction")
\* ------------------------------------------------------------------------

\* first pass over reqs: fulfillment before the external grid
FulfillmentBeforeExt(requests, received) ==
    [b \in DictKeys(requests) |->
        [recv |-> IF DictGet(requests, b).need_kwh > 0
                  THEN RoundGet(received, b, 0) ELSE 0,
         need |-> DictGet(requests, b).need_kwh]]

\* the buyers put on the unmet_demand list
UnmetDemand(requests, received) ==
    {b \in DictKeys(requests) :
        Max(0, DictGet(requests, b).need_kwh - RoundGet(received, b, 0)) > 1}

\* faulty variant: the grid's price is not compared with price_max
ExtDelivered_AnyPrice(need_kwh, price_max, current_received, deliverable_cap, sell_price) ==
    LET remaining_need == Max(0, need_kwh - current_received)
        agent_remaining == Max(0, deliverable_cap - current_received)
        transmission_remaining == Max(0, transmission_limit_kw - current_received)
        allowed_cap == Min(agent_remaining, transmission_remaining)
        delivered == Min(remaining_need, allowed_cap)
    IN  IF agent_remaining > 0 /\ transmission_remaining > 0 /\ delivered > 0
        THEN delivered ELSE 0

\* faulty variant: the buyer's own cap is not looked at
ExtDelivered_NoAgentCap(need_kwh, price_max, current_received, deliverable_cap, sell_price) ==
    LET remaining_need == Max(0, need_kwh - current_received)
        transmission_remaining == Max(0, transmission_limit_kw - current_received)
        delivered == Min(remaining_need, transmission_remaining)
    IN  IF sell_price <= price_max /\ transmission_remaining > 0 /\ delivered > 0
        THEN delivered ELSE 0

\* what the external grid delivers to one buyer of the unmet_demand list
ExtDelivered(need_kwh, price_max, current_received, deliverable_cap, sell_price) ==
    LET remaining_need == Max(0, need_kwh - current_received)
        agent_remaining == Max(0, deliverable_cap - current_received)
        transmission_remaining == Max(0, transmission_limit_kw - current_received)
        allowed_cap == Min(agent_remaining, transmission_remaining)
        delivered == Min(remaining_need, allowed_cap)
    IN  IF sell_price <= price_max
           /\ agent_remaining > 0 /\ transmission_remaining > 0 /\ delivered > 0
        THEN delivered ELSE 0

\* one pass of "for (buyer, ...) in unmet_demand"
ExtServeBuyer(rid, buyer, req_data, unmet, sell_price, acc) ==
    LET need_kwh == req_data.need_kwh
        current_received == RoundGet(acc.buyer_received_kw, buyer, 0)
        deliverable_cap == RoundGet(acc.buyer_caps, buyer, need_kwh)
        remaining_need == Max(0, need_kwh - current_received)
        delivered == ExtDelivered(need_kwh, req_data.price_max, current_received,
                                  deliverable_cap, sell_price)
        new_total == current_received + delivered
    IN  IF buyer \notin unmet \/ delivered = 0 THEN acc
        ELSE [acc EXCEPT
                !.buyer_received_kw = FnPut(@, buyer, new_total),
                !.buyer_fulfillment =
                    FnPut(@, buyer, [recv |-> Min(new_total, need_kwh),
                                     need |-> need_kwh]),
                !.delivered = FnPut(@, buyer, delivered),
                !.sold_total = @ + delivered,
                !.sold_value = @ + delivered * sell_price,
                !.sent = Append(@, ControlCommand(buyer, rid, delivered, sell_price,
                                                  "external_grid", FALSE, 0, 0)),
                !.log = IF delivered < remaining_need
                        THEN Append(@, Event("transmission_limit", buyer,
                                             remaining_need, delivered,
                                             "external_grid", sell_price, rid))
                        ELSE @]

RECURSIVE ExtServeLoop(_, _, _, _, _, _)
ExtServeLoop(requests, n, rid, unmet, sell_price, acc) ==
    IF n > Len(requests) THEN acc
    ELSE ExtServeLoop(requests, n + 1, rid, unmet, sell_price,
                      ExtServeBuyer(rid, requests[n].k, requests[n].v, unmet,
                                    sell_price, acc))

\* faulty variant: emergency-only storage units export as well
SurplusEnergy_WithEmergency(remaining) ==
    {s \in DOMAIN remaining : remaining[s] > 50}

\* the sellers whose remainder may be exported
SurplusEnergy(remaining) ==
    {s \in DOMAIN remaining :
        /\ remaining[s] > 50
        /\ ~(s \in DOMAIN storage_state /\ storage_state[s].emergency_only)}

\* one pass of "for seller, surplus_kwh in surplus_energy.items()"
RECURSIVE ExtAbsorbLoop(_, _, _, _, _, _, _)
ExtAbsorbLoop(offers, n, rid, surplus, remaining, buy_price, acc) ==
    IF n > Len(offers) THEN acc
    ELSE LET seller == offers[n].k
         IN  ExtAbsorbLoop(offers, n + 1, rid, surplus, remaining, buy_price,
                IF seller \notin surplus THEN acc
                ELSE [acc EXCEPT
                        !.absorbed = FnPut(@, seller, remaining[seller]),
                        !.bought_total = @ + remaining[seller],
                        !.bought_value = @ + remaining[seller] * buy_price,
                        !.sent = Append(@, OfferAccept(seller, rid, "external_grid",
                                                       remaining[seller], buy_price))])

NoExtRound == [available |-> FALSE, sold_total |-> 0, sold_value |-> 0,
               bought_total |-> 0, bought_value |-> 0,
               delivered |-> <<>>, absorbed |-> <<>>]

\* faulty variant: energy moves whatever the availability draw
RunExternalGrid_IgnoresAvailability(offers, requests, rid, ext_available, buy_price, sell_price) ==
    LET acc0 == [buyer_received_kw |-> buyer_received_kw,
                 buyer_caps |-> buyer_caps,
                 buyer_fulfillment |-> FulfillmentBeforeExt(requests, buyer_received_kw),
                 delivered |-> <<>>, absorbed |-> <<>>,
                 sold_total |-> 0, sold_value |-> 0,
                 bought_total |-> 0, bought_value |-> 0,
                 sent |-> <<>>, log |-> <<>>]
        unmet == UnmetDemand(requests, buyer_received_kw)
        served == ExtServeLoop(requests, 1, rid, unmet, sell_price, acc0)
    IN  ExtAbsorbLoop(offers, 1, rid, SurplusEnergy(seller_remaining),
                      seller_remaining, buy_price, served)

\* the whole external-grid step of one round
RunExternalGrid(offers, requests, rid, ext_available, buy_price, sell_price) ==
    LET acc0 == [buyer_received_kw |-> buyer_received_kw,
                 buyer_caps |-> buyer_caps,
                 buyer_fulfillment |-> FulfillmentBeforeExt(requests, buyer_received_kw),
                 delivered |-> <<>>, absorbed |-> <<>>,
                 sold_total |-> 0, sold_value |-> 0,
                 bought_total |-> 0, bought_value |-> 0,
                 sent |-> <<>>, log |-> <<>>]
        unmet == UnmetDemand(requests, buyer_received_kw)
        served == ExtServeLoop(requests, 1, rid, unmet, sell_price, acc0)
    IN  IF ext_available
        THEN ExtAbsorbLoop(offers, 1, rid, SurplusEnergy(seller_remaining),
                           seller_remaining, buy_price, served)
        ELSE acc0


\* ------------------------------------------------------------------------
\* Failure controller (GridNodeAgent._check_and_trigger_failure)
\* ------------------------------------------------------------------------
StorageFull ==
    \E s \in DOMAIN storage_state :
        100 * storage_state[s].soc_kwh >= 99 * storage_state[s].cap_kwh

\* faulty variant: only the first producer of the store is looked at
AnyOffline_FirstOnly(pstate) == pstate # <<>> /\ ~pstate[1].v.is_operational

\* the flag as both the failure step and the receiver recompute it
AnyOffline(pstate) == \E i \in 1..Len(pstate) : ~pstate[i].v.is_operational

OperationalIdx(pstate) == {i \in 1..Len(pstate) : pstate[i].v.is_operational}

\* the producers the loop "Try to create a new failure" may stop at: with
\* probability 1 the first operational one, with probability 0 none (0)
FailureVictims(pstate) ==
    LET ops == OperationalIdx(pstate)
        first == {i \in ops : \A j \in ops : i <= j}
    IN  IF producer_failure_probability = 0 THEN {0}
        ELSE IF producer_failure_probability >= 100
             THEN (IF ops = {} THEN {0} ELSE first)
             ELSE ops \cup {0}

\* faulty variant: the failed producer keeps its last production figure
MarkFailed_KeepsOutput(pstate, i, failure_duration) ==
    [pstate EXCEPT ![i].v = [@ EXCEPT !.is_operational = FALSE,
                                       !.failure_rounds_remaining = failure_duration,
                                       !.failure_rounds_total = failure_duration]]

\* faulty variant: the failure counter starts one above the drawn duration
MarkFailed_OneMore(pstate, i, failure_duration) ==
    [pstate EXCEPT ![i].v = [@ EXCEPT !.is_operational = FALSE,
                                       !.failure_rounds_remaining = failure_duration + 1,
                                       !.failure_rounds_total = failure_duration,
                                       !.prod_kwh = 0]]

MarkFailed(pstate, i, failure_duration) ==
    [pstate EXCEPT ![i].v = [@ EXCEPT !.is_operational = FALSE,
                                       !.failure_rounds_remaining = failure_duration,
                                       !.failure_rounds_total = failure_duration,
                                       !.prod_kwh = 0]]

\* faulty variant: a failure step that does not look for an existing failure
FailureStepArmed_StorageOnly(pstate) == StorageFull

\* may the failure step try to create a new failure?
FailureStepArmed(pstate) == StorageFull /\ ~AnyOffline(pstate)

\* the effect of the failure step for one outcome of its random draws
CheckAndTriggerFailure(victim, failure_duration) ==
    IF ~StorageFull
    THEN UNCHANGED <<producers_state, any_producer_failed>>
    ELSE IF ~FailureStepArmed(producers_state)
    THEN /\ any_producer_failed' = AnyOffline(producers_state)
         /\ UNCHANGED producers_state
    ELSE IF victim = 0
    THEN /\ any_producer_failed' = FALSE
         /\ UNCHANGED producers_state
    ELSE /\ producers_state' = MarkFailed(producers_state, victim, failure_duration)
         /\ any_producer_failed' = TRUE

\* ------------------------------------------------------------------------
\* Seller / buyer classification (RoundOrchestrator.run)
\* ------------------------------------------------------------------------
SocAtLeastPct(st, pct) == st.cap_kwh > 0 /\ 100 * st.soc_kwh >= pct * st.cap_kwh
SocAbovePct(st, pct) == st.cap_kwh > 0 /\ 100 * st.soc_kwh > pct * st.cap_kwh
SocBelowPct(st, pct) == ~SocAtLeastPct(st, pct)

\* faulty variant: a producer sells whatever it produces
SellerSet_AnyProduction ==
    {p \in DictKeys(producers_state) :
        DictGet(producers_state, p).prod_kwh > 0
        /\ DictGet(producers_state, p).is_operational}
    \cup {h \in DOMAIN households_state :
            households_state[h].prod_kwh > households_state[h].demand_kwh}
    \cup {s \in DOMAIN storage_state :
            IF storage_state[s].emergency_only
            THEN any_producer_failed /\ SocAbovePct(storage_state[s], 20)
            ELSE /\ SocAtLeastPct(storage_state[s], 95)
                 /\ 10 * storage_state[s].soc_kwh > 2 * storage_state[s].cap_kwh}

\* "Determine potential sellers"
SellerSet ==
    {p \in DictKeys(producers_state) :
        DictGet(producers_state, p).prod_kwh > 1
        /\ DictGet(producers_state, p).is_operational}
    \cup {h \in DOMAIN households_state :
            households_state[h].prod_kwh > households_state[h].demand_kwh}
    \cup {s \in DOMAIN storage_state :
            IF storage_state[s].emergency_only
            THEN any_producer_failed /\ SocAbovePct(storage_state[s], 20)
            ELSE /\ SocAtLeastPct(storage_state[s], 95)
                 /\ 10 * storage_state[s].soc_kwh > 2 * storage_state[s].cap_kwh}

BuyerSet ==
    {h \in DOMAIN households_state :
        households_state[h].demand_kwh > households_state[h].prod_kwh}
    \cup {s \in DOMAIN storage_state :
            IF storage_state[s].emergency_only
            THEN SocBelowPct(storage_state[s], 99) /\ ~any_producer_failed
            ELSE SocBelowPct(storage_state[s], 95)}

\* the CFP burst, one message per invited agent (InviteBurstSend.run)
RECURSIVE InviteBurst(_, _, _, _)
InviteBurst(jids, rid, deadline_ts, producers_failed) ==
    IF jids = {} THEN <<>>
    ELSE LET j == CHOOSE a \in jids : \A b \in jids : JidRank[a] <= JidRank[b]
         IN  <<CallForOffers(j, rid, deadline_ts, producers_failed)>>
             \o InviteBurst(jids \ {j}, rid, deadline_ts, producers_failed)

\* ------------------------------------------------------------------------
\* The orchestrator, one action per stretch between two suspension points
\* ------------------------------------------------------------------------
EmptyRound ==
    /\ sellers = {}
    /\ reqs = <<>>
    /\ seller_remaining = <<>>
    /\ buyer_received_kw = <<>>
    /\ buyer_caps = <<>>
    /\ buyer_fulfillment = <<>>
    /\ tally = ZeroTally
    /\ matches = <<>>
    /\ ext_round = NoExtRound

\* StartupCoordinator.run
StartupCoordinator ==
    /\ pc = "startup"
    /\ Cardinality(known_households) >= Cardinality(Households)
    /\ Cardinality(known_producers) >= Cardinality(Producers)
    /\ Cardinality(known_storage) >= Cardinality(Storages)
    /\ sent' = Append(sent, EnvRequest(sim_hour))
    /\ wake_ts' = now + 1
    /\ pc' = "round_start"
    /\ UNCHANGED <<now, round_id, round_start_ts, round_deadline_ts, clockVars,
                   knownVars, storeVars, ledgerVars, auction_log, configVars,
                   roundVars, extVars, rounds_data, recvVars>>

\* "R = time.time()" up to the first poll of the status wait
StartRound ==
    /\ pc = "round_start"
    /\ now >= wake_ts
    /\ round_counter <= round_limit
    /\ round_id' = now
    /\ round_start_ts' = now
    /\ wake_ts' = now
    /\ pc' = "sync"
    /\ sent' = <<>>
    /\ sellers' = {}
    /\ reqs' = <<>>
    /\ seller_remaining' = <<>>
    /\ buyer_received_kw' = <<>>
    /\ buyer_caps' = <<>>
    /\ buyer_fulfillment' = <<>>
    /\ tally' = ZeroTally
    /\ matches' = <<>>
    /\ ext_round' = NoExtRound
    /\ UNCHANGED <<now, round_deadline_ts, clockVars, knownVars, storeVars,
                   ledgerVars, auction_log, configVars, extVars, rounds_data,
                   recvVars>>

\* faulty variant: the grace window alone ends the wait
StatusBarrierOpen_GraceOnly ==
    LET expected == known_households \cup known_producers \cup known_storage
        got == RoundGet(status_seen_round, round_id, {})
        all_in == Cardinality(expected) > 0 /\ expected \subseteq got
    IN  all_in \/ now - round_start_ts >= STATUS_GRACE_S

\* faulty variant: the wait ends only when everybody has reported
StatusBarrierOpen_AllInOnly ==
    LET expected == known_households \cup known_producers \cup known_storage
        got == RoundGet(status_seen_round, round_id, {})
    IN  Cardinality(expected) > 0 /\ expected \subseteq got

\* may the status wait of the current round end?
StatusBarrierOpen ==
    LET expected == known_households \cup known_producers \cup known_storage
        got == RoundGet(status_seen_round, round_id, {})
        all_in == Cardinality(expected) > 0 /\ expected \subseteq got
    IN  all_in \/ (now - round_start_ts >= STATUS_GRACE_S /\ Cardinality(got) > 0)

\* leaving the status wait, then the failure step
SyncAndFailure(victim, failure_duration) ==
    /\ pc = "sync"
    /\ now >= wake_ts
    /\ StatusBarrierOpen
    /\ victim \in FailureVictims(producers_state)
    /\ CheckAndTriggerFailure(victim, failure_duration)
    /\ failure_watch' =
         IF FailureStepArmed(producers_state) /\ victim # 0
         THEN [failure_watch EXCEPT ![producers_state[victim].k] =
                                        [k |-> failure_duration, reports |-> 0,
                                         round |-> round_counter]]
         ELSE failure_watch
    /\ pc' = "classify_sellers"
    /\ wake_ts' = now
    /\ UNCHANGED <<now, round_id, round_start_ts, round_deadline_ts, clockVars,
                   knownVars, households_state, storage_state, ledgerVars,
                   auction_log, configVars, roundVars, extVars, rounds_data,
                   sent, recv_budget, round_limit, recv_note, peerVars>>

\* "Determine potential sellers"
ClassifySellers ==
    /\ pc = "classify_sellers"
    /\ now >= wake_ts
    /\ sellers' = SellerSet
    /\ invited_round' = FnPut(invited_round, round_id, SellerSet)
    /\ pc' = "classify_buyers"
    /\ wake_ts' = now
    /\ UNCHANGED <<now, round_id, round_start_ts, round_deadline_ts, clockVars,
                   knownVars, storeVars, status_seen_round, offers_round,
                   requests_round, declined_round, auction_log, configVars,
                   reqs, seller_remaining, buyer_received_kw, buyer_caps,
                   buyer_fulfillment, tally, matches, ext_round, extVars,
                   rounds_data, sent, recvVars>>

\* faulty variant: the round does not wait for the offers
ClassifyBuyersAndCFP_NoWait ==
    /\ pc = "classify_buyers"
    /\ now >= wake_ts
    /\ LET eligible_for_cfp == sellers \cup BuyerSet
       IN  IF Cardinality(eligible_for_cfp) > 0
           THEN /\ round_deadline_ts' = now + OFFERS_TIMEOUT
                /\ sent' = sent \o InviteBurst(eligible_for_cfp, round_id,
                                               now + OFFERS_TIMEOUT,
                                               any_producer_failed)
                /\ wake_ts' = now
           ELSE /\ UNCHANGED <<round_deadline_ts, sent>>
                /\ wake_ts' = now
    /\ pc' = "matching"
    /\ UNCHANGED <<now, round_id, round_start_ts, clockVars, knownVars, storeVars,
                   ledgerVars, auction_log, configVars, roundVars, extVars,
                   rounds_data, recvVars>>

\* "Determine real buyers" and the call for proposals
ClassifyBuyersAndCFP ==
    /\ pc = "classify_buyers"
    /\ now >= wake_ts
    /\ LET eligible_for_cfp == sellers \cup BuyerSet
       IN  IF Cardinality(eligible_for_cfp) > 0
           THEN /\ round_deadline_ts' = now + OFFERS_TIMEOUT
                /\ sent' = sent \o InviteBurst(eligible_for_cfp, round_id,
                                               now + OFFERS_TIMEOUT,
                                               any_producer_failed)
                \* the sleep starts after the clock was read for the deadline
                /\ wake_ts' = now + OFFERS_TIMEOUT + 1
           ELSE /\ UNCHANGED <<round_deadline_ts, sent>>
                /\ wake_ts' = now
    /\ pc' = "matching"
    /\ UNCHANGED <<now, round_id, round_start_ts, clockVars, knownVars, storeVars,
                   ledgerVars, auction_log, configVars, roundVars, extVars,
                   rounds_data, recvVars>>

\* "Collect offers and requests for this round" and the internal matching
Matching ==
    /\ pc = "matching"
    /\ now >= wake_ts
    /\ LET offers == RoundGet(offers_round, round_id, <<>>)
           requests == RoundGet(requests_round, round_id, <<>>)
           m == RunMatching(offers, requests, round_id)
       IN  /\ reqs' = requests
           /\ seller_remaining' = m.seller_remaining
           /\ buyer_received_kw' = m.buyer_received_kw
           /\ buyer_caps' = m.buyer_caps
           /\ buyer_fulfillment' = m.buyer_fulfillment
           /\ tally' = m.tally
           /\ matches' = m.matches
           /\ sent' = sent \o m.sent
           /\ auction_log' = auction_log \o m.log
    /\ pc' = "external_grid"
    /\ UNCHANGED <<now, wake_ts, round_id, round_start_ts, round_deadline_ts,
                   clockVars, knownVars, storeVars, ledgerVars, configVars,
                   sellers, ext_round, extVars, rounds_data, recvVars>>

\* faulty variant: the external grid serves the requests as they are now
ExternalGrid_LiveRequests(ext_available, buy_price, sell_price) ==
    /\ pc = "external_grid"
    /\ LET offers == RoundGet(offers_round, round_id, <<>>)
           x == RunExternalGrid(offers, RoundGet(requests_round, round_id, <<>>), round_id, ext_available,
                                buy_price, sell_price)
       IN  /\ external_grid_buy_price' = buy_price
           /\ external_grid_sell_price' = sell_price
           /\ buyer_received_kw' = x.buyer_received_kw
           /\ buyer_fulfillment' = x.buyer_fulfillment
           /\ ext_round' = [available |-> ext_available,
                            sold_total |-> x.sold_total,
                            sold_value |-> x.sold_value,
                            bought_total |-> x.bought_total,
                            bought_value |-> x.bought_value,
                            delivered |-> x.delivered,
                            absorbed |-> x.absorbed]
           /\ ext_grid' = [ext_grid EXCEPT
                 !.total_sold_kwh = @ + x.sold_total,
                 !.revenue = @ + x.sold_value,
                 !.total_bought_kwh = @ + x.bought_total,
                 !.costs = @ + x.bought_value,
                 !.rounds_available = IF ext_available THEN @ + 1 ELSE @,
                 !.rounds_unavailable = IF ext_available THEN @ ELSE @ + 1]
           /\ sent' = sent \o x.sent
           /\ auction_log' = auction_log \o x.log
    /\ pc' = "record"
    /\ UNCHANGED <<now, wake_ts, round_id, round_start_ts, round_deadline_ts,
                   clockVars, knownVars, storeVars, ledgerVars, configVars,
                   sellers, reqs, seller_remaining, buyer_caps, tally, matches,
                   rounds_data, recvVars>>

\* "External grid interaction" for one outcome of its random draws
ExternalGrid(ext_available, buy_price, sell_price) ==
    /\ pc = "external_grid"
    /\ LET offers == RoundGet(offers_round, round_id, <<>>)
           x == RunExternalGrid(offers, reqs, round_id, ext_available,
                                buy_price, sell_price)
       IN  /\ external_grid_buy_price' = buy_price
           /\ external_grid_sell_price' = sell_price
           /\ buyer_received_kw' = x.buyer_received_kw
           /\ buyer_fulfillment' = x.buyer_fulfillment
           /\ ext_round' = [available |-> ext_available,
                            sold_total |-> x.sold_total,
                            sold_value |-> x.sold_value,
                            bought_total |-> x.bought_total,
                            bought_value |-> x.bought_value,
                            delivered |-> x.delivered,
                            absorbed |-> x.absorbed]
           /\ ext_grid' = [ext_grid EXCEPT
                 !.total_sold_kwh = @ + x.sold_total,
                 !.revenue = @ + x.sold_value,
                 !.total_bought_kwh = @ + x.bought_total,
                 !.costs = @ + x.bought_value,
                 !.rounds_available = IF ext_available THEN @ + 1 ELSE @,
                 !.rounds_unavailable = IF ext_available THEN @ ELSE @ + 1]
           /\ sent' = sent \o x.sent
           /\ auction_log' = auction_log \o x.log
    /\ pc' = "record"
    /\ UNCHANGED <<now, wake_ts, round_id, round_start_ts, round_deadline_ts,
                   clockVars, knownVars, storeVars, ledgerVars, configVars,
                   sellers, reqs, seller_remaining, buyer_caps, tally, matches,
                   rounds_data, recvVars>>

RECURSIVE SumFn(_, _)
SumFn(f, S) ==
    IF S = {} THEN 0
    ELSE LET x == CHOOSE y \in S : TRUE IN f[x] + SumFn(f, S \ {x})

\* a fulfillment percentage is kept as the pair it is computed from,
\* 100 * recv / need, and is 0.0 for a need of 0
PctBelow99(f) == f.need = 0 \/ 100 * f.recv < 99 * f.need

RECURSIVE GCD(_, _)
GCD(a, b) == IF b = 0 THEN a ELSE GCD(b, a % b)

\* the least common multiple of the needs, to add percentages exactly
RECURSIVE NeedsLCM(_, _)
NeedsLCM(bf, S) ==
    IF S = {} THEN 1
    ELSE LET b == CHOOSE y \in S : TRUE
             n == IF bf[b].need = 0 THEN 1 ELSE bf[b].need
             m == NeedsLCM(bf, S \ {b})
         IN  (n \div GCD(n, m)) * m

\* "avg_fulfillment < 99.0", avg_fulfillment being 0.0 without buyers
AvgFulfillmentBelow99(bf) ==
    LET scale == NeedsLCM(bf, DOMAIN bf)
        pct == [b \in DOMAIN bf |->
                   IF bf[b].need = 0 THEN 0
                   ELSE (100 * bf[b].recv * scale) \div bf[b].need]
    IN  IF DOMAIN bf = {} THEN TRUE
        ELSE SumFn(pct, DOMAIN bf) < 99 * Cardinality(DOMAIN bf) * scale

\* faulty variant: a round is a blackout round when the average is low
BlackoutRound_ByAverage(bf) == AvgFulfillmentBelow99(bf)

\* "blackout_round = blackout_impacted > 0"
BlackoutRound(bf) == Cardinality({b \in DOMAIN bf : PctBelow99(bf[b])}) > 0

\* faulty variant: what the external grid absorbed is not counted as wasted
RoundData_NetOfExports ==
    LET blackout_impacted ==
            Cardinality({b \in DOMAIN buyer_fulfillment :
                            PctBelow99(buyer_fulfillment[b])})
    IN  [round_num |-> round_counter,
         round_id |-> round_id,
         total_demand |-> SumFn([b \in DictKeys(reqs) |-> DictGet(reqs, b).need_kwh],
                                DictKeys(reqs)),
         total_supplied |-> tally.total_traded + ext_round.sold_total,
         market_value |-> tally.total_value + ext_round.sold_value,
         wasted_energy |-> SumFn(seller_remaining, DOMAIN seller_remaining)
                              - ext_round.bought_total,
         ext_grid_sold |-> ext_round.sold_total,
         ext_grid_bought |-> ext_round.bought_total,
         buyer_fulfillment |-> buyer_fulfillment,
         any_producer_failed |-> any_producer_failed,
         avg_below_99 |-> AvgFulfillmentBelow99(buyer_fulfillment),
         blackout |-> BlackoutRound(buyer_fulfillment),
         blackout_impacted |-> blackout_impacted]

\* the round_data record handed to PerformanceTracker.record_round
RoundData ==
    LET blackout_impacted ==
            Cardinality({b \in DOMAIN buyer_fulfillment :
                            PctBelow99(buyer_fulfillment[b])})
    IN  [round_num |-> round_counter,
         round_id |-> round_id,
         total_demand |-> SumFn([b \in DictKeys(reqs) |-> DictGet(reqs, b).need_kwh],
                                DictKeys(reqs)),
         total_supplied |-> tally.total_traded + ext_round.sold_total,
         market_value |-> tally.total_value + ext_round.sold_value,
         wasted_energy |-> SumFn(seller_remaining, DOMAIN seller_remaining),
         ext_grid_sold |-> ext_round.sold_total,
         ext_grid_bought |-> ext_round.bought_total,
         buyer_fulfillment |-> buyer_fulfillment,
         any_producer_failed |-> any_producer_failed,
         avg_below_99 |-> AvgFulfillmentBelow99(buyer_fulfillment),
         blackout |-> BlackoutRound(buyer_fulfillment),
         blackout_impacted |-> blackout_impacted]

\* metrics, PerformanceTracker.record_round, then the pre-environment sleep
RecordRound ==
    /\ pc = "record"
    /\ rounds_data' = Append(rounds_data, RoundData)
    /\ wake_ts' = now + (ROUND_SLEEP_SECONDS - ROUND_SLEEP_SECONDS \div 5)
    /\ pc' = "advance"
    /\ UNCHANGED <<now, round_id, round_start_ts, round_deadline_ts, clockVars,
                   knownVars, storeVars, ledgerVars, auction_log, configVars,
                   roundVars, extVars, sent, recvVars>>

\* faulty variant: the day turns only after hour 24
AdvanceTime_LateWrap ==
    /\ pc = "advance"
    /\ now >= wake_ts
    /\ round_counter' = round_counter + 1
    /\ sim_hour' = IF sim_hour + 1 > 24 THEN 0 ELSE sim_hour + 1
    /\ sim_day' = IF sim_hour + 1 > 24 THEN sim_day + 1 ELSE sim_day
    /\ sent' = Append(sent, EnvRequest(IF sim_hour + 1 > 24 THEN 0 ELSE sim_hour + 1))
    /\ wake_ts' = now + ROUND_SLEEP_SECONDS \div 5
    /\ pc' = "round_start"
    /\ UNCHANGED <<now, round_id, round_start_ts, round_deadline_ts, knownVars,
                   storeVars, ledgerVars, auction_log, configVars, roundVars,
                   extVars, rounds_data, recvVars>>

\* "Advance simulated time" and the request for the next environment update
AdvanceTime ==
    /\ pc = "advance"
    /\ now >= wake_ts
    /\ round_counter' = round_counter + 1
    /\ sim_hour' = IF sim_hour + 1 >= 24 THEN 0 ELSE sim_hour + 1
    /\ sim_day' = IF sim_hour + 1 >= 24 THEN sim_day + 1 ELSE sim_day
    /\ sent' = Append(sent, EnvRequest(IF sim_hour + 1 >= 24 THEN 0 ELSE sim_hour + 1))
    /\ wake_ts' = now + ROUND_SLEEP_SECONDS \div 5
    /\ pc' = "round_start"
    /\ UNCHANGED <<now, round_id, round_start_ts, round_deadline_ts, knownVars,
                   storeVars, ledgerVars, auction_log, configVars, roundVars,
                   extVars, rounds_data, recvVars>>

\* the passage of time, to the next instant at which something changes
NextInstants ==
    {t \in {wake_ts, round_start_ts + STATUS_GRACE_S, round_deadline_ts} : t > now}

Tick ==
    /\ NextInstants # {}
    /\ now' = CHOOSE t \in NextInstants : \A u \in NextInstants : t <= u
    /\ UNCHANGED <<pc, wake_ts, round_id, round_start_ts, round_deadline_ts,
                   clockVars, knownVars, storeVars, ledgerVars, auction_log,
                   configVars, roundVars, extVars, rounds_data, sent, recvVars>>


\* ------------------------------------------------------------------------
\* The receiver (Receiver.run), one action per message type
\* ------------------------------------------------------------------------
\* faulty variant: the state of the sender is not looked at
SenderOffline_Never(sender) == FALSE

\* the sender is a producer the coordinator holds as not operational
SenderOffline(sender) ==
    /\ DictHas(producers_state, sender)
    /\ ~DictGet(producers_state, sender).is_operational

ReportTypes == {"status_report", "production_report", "statusBattery"}
MarketTypes == {"energy_offer", "energy_request", "declined_offer"}

\* the peers are left out: no storage unit is followed, the environment
\* agent is idle and reports arrive whenever the specification lets them
NoPeers ==
    /\ storage_unit = <<>>
    /\ env_served = 0
    /\ report_pending = <<>>

\* bookkeeping of the model, not of the program: the number of messages the
\* receiver may still take (recv_budget), the number of rounds explored
\* (round_limit) and, per producer, the length k of its last failure, the
\* round in which it was marked and the number of its production reports
\* received while it was held offline since then; recv_note says what the
\* receiver made of the last market message
Received(type, sender, note) ==
    /\ recv_budget > 0
    /\ recv_budget' = recv_budget - 1
    /\ UNCHANGED round_limit
    /\ recv_note' = IF note = "" THEN recv_note ELSE note
    /\ failure_watch' =
         IF type = "production_report" /\ SenderOffline(sender)
         THEN [failure_watch EXCEPT ![sender].reports = @ + 1]
         ELSE failure_watch
    \* a report or a market message of a modelled peer has left its channel
    /\ report_pending' =
         IF type \in ReportTypes /\ sender \in DOMAIN report_pending
            /\ report_pending[sender] > 0
         THEN [report_pending EXCEPT ![sender] = @ - 1]
         ELSE report_pending
    /\ storage_unit' =
         IF type \in MarketTypes /\ sender \in DOMAIN storage_unit
            /\ storage_unit[sender].outbox # <<>>
         THEN [storage_unit EXCEPT ![sender].outbox = Tail(@)]
         ELSE storage_unit
    /\ UNCHANGED env_served

\* faulty variant: a report is credited also before the first round
MarkSeen_NoGuard(sender) ==
    FnPut(status_seen_round, round_id,
          RoundGet(status_seen_round, round_id, {}) \cup {sender})

\* "if R: status_seen_round[R].add(sender)"
MarkSeen(sender) ==
    IF round_id # NoRound
    THEN FnPut(status_seen_round, round_id,
               RoundGet(status_seen_round, round_id, {}) \cup {sender})
    ELSE status_seen_round

RecvRegisterHousehold(sender) ==
    /\ sender \notin known_households
    /\ known_households' = known_households \cup {sender}
    /\ UNCHANGED <<pc, now, wake_ts, round_id, round_start_ts, round_deadline_ts,
                   clockVars, known_producers, known_storage, storeVars,
                   ledgerVars, auction_log, configVars, roundVars, extVars,
                   rounds_data, sent, recvVars>>

RecvRegisterProducer(sender) ==
    /\ sender \notin known_producers
    /\ known_producers' = known_producers \cup {sender}
    /\ UNCHANGED <<pc, now, wake_ts, round_id, round_start_ts, round_deadline_ts,
                   clockVars, known_households, known_storage, storeVars,
                   ledgerVars, auction_log, configVars, roundVars, extVars,
                   rounds_data, sent, recvVars>>

RecvRegisterStorage(sender) ==
    /\ sender \notin known_storage
    /\ known_storage' = known_storage \cup {sender}
    /\ UNCHANGED <<pc, now, wake_ts, round_id, round_start_ts, round_deadline_ts,
                   clockVars, known_households, known_producers, storeVars,
                   ledgerVars, auction_log, configVars, roundVars, extVars,
                   rounds_data, sent, recvVars>>

RecvStatusReport(sender, data) ==
    /\ sender \in known_households
    /\ Received("status_report", sender, "")
    /\ households_state' = FnPut(households_state, sender, data)
    /\ status_seen_round' = MarkSeen(sender)
    /\ UNCHANGED <<pc, now, wake_ts, round_id, round_start_ts, round_deadline_ts,
                   clockVars, knownVars, producers_state, storage_state,
                   any_producer_failed, offers_round, requests_round,
                   declined_round, invited_round, auction_log, configVars,
                   roundVars, extVars, rounds_data, sent>>

\* faulty variant: recovery only once the counter was already at zero
Recovers_OneLater(remaining) == remaining - 1 < 0

\* does a report from a producer held offline bring it back?
Recovers(remaining) == remaining - 1 = 0

\* faulty variant: a producer held offline keeps the output it reports
MergeProductionReport_KeepsOutput(pstate, sender, data) ==
    IF ~DictHas(pstate, sender) THEN data
    ELSE LET existing_state == DictGet(pstate, sender)
             remaining == existing_state.failure_rounds_remaining
         IN  IF existing_state.is_operational THEN data
             ELSE IF remaining > 0
             THEN (IF Recovers(remaining)
                   THEN [data EXCEPT !.is_operational = TRUE,
                                     !.failure_rounds_remaining = 0]
                   ELSE [data EXCEPT !.is_operational = FALSE,
                                     !.failure_rounds_remaining = remaining - 1,
                                     !.failure_rounds_total =
                                         existing_state.failure_rounds_total])
             ELSE [data EXCEPT !.is_operational = TRUE]

\* faulty variant: a report of a producer held offline leaves its counter
MergeProductionReport_NoCountdown(pstate, sender, data) ==
    IF ~DictHas(pstate, sender) THEN data
    ELSE LET existing_state == DictGet(pstate, sender)
         IN  IF existing_state.is_operational THEN data
             ELSE [data EXCEPT !.is_operational = FALSE,
                               !.failure_rounds_remaining =
                                   existing_state.failure_rounds_remaining,
                               !.failure_rounds_total =
                                   existing_state.failure_rounds_total,
                               !.prod_kwh = 0]

\* "Preserve failure state controlled by the GridNode"
MergeProductionReport(pstate, sender, data) ==
    IF ~DictHas(pstate, sender) THEN data
    ELSE LET existing_state == DictGet(pstate, sender)
             remaining == existing_state.failure_rounds_remaining
         IN  IF existing_state.is_operational THEN data
             ELSE IF remaining > 0
             THEN (IF Recovers(remaining)
                   THEN [data EXCEPT !.is_operational = TRUE,
                                     !.failure_rounds_remaining = 0]
                   ELSE [data EXCEPT !.is_operational = FALSE,
                                     !.failure_rounds_remaining = remaining - 1,
                                     !.failure_rounds_total =
                                         existing_state.failure_rounds_total,
                                     !.prod_kwh = 0])
             ELSE [data EXCEPT !.is_operational = TRUE]

RecvProductionReport(sender, data) ==
    /\ sender \in known_producers
    /\ Received("production_report", sender, "")
    /\ LET merged == DictPut(producers_state, sender,
                             MergeProductionReport(producers_state, sender, data))
       IN  /\ producers_state' = merged
           /\ any_producer_failed' = AnyOffline(merged)
    /\ status_seen_round' = MarkSeen(sender)
    /\ UNCHANGED <<pc, now, wake_ts, round_id, round_start_ts, round_deadline_ts,
                   clockVars, knownVars, households_state, storage_state,
                   offers_round, requests_round, declined_round, invited_round,
                   auction_log, configVars, roundVars, extVars, rounds_data, sent>>

RecvStatusBattery(sender, data) ==
    /\ sender \in known_storage
    /\ Received("statusBattery", sender, "")
    /\ storage_state' = FnPut(storage_state, sender, data)
    /\ status_seen_round' = MarkSeen(sender)
    /\ UNCHANGED <<pc, now, wake_ts, round_id, round_start_ts, round_deadline_ts,
                   clockVars, knownVars, households_state, producers_state,
                   any_producer_failed, offers_round, requests_round,
                   declined_round, invited_round, auction_log, configVars,
                   roundVars, extVars, rounds_data, sent>>

\* "if data.get('round_id') != R: return"
RequestIsCurrent(rid) == rid = round_id

RecvEnergyRequest(sender, rid, need_kwh, price_max) ==
    /\ Received("energy_request", sender,
                IF RequestIsCurrent(rid) THEN "stored" ELSE "stale")
    /\ IF RequestIsCurrent(rid)
       THEN /\ requests_round' =
                 FnPut(requests_round, round_id,
                       DictPut(RoundGet(requests_round, round_id, <<>>), sender,
                               [need_kwh |-> need_kwh, price_max |-> price_max]))
            /\ auction_log' = Append(auction_log,
                                     Event("request", sender, need_kwh, 0, NoPeer,
                                           price_max, round_id))
       ELSE UNCHANGED <<requests_round, auction_log>>
    /\ UNCHANGED <<pc, now, wake_ts, round_id, round_start_ts, round_deadline_ts,
                   clockVars, knownVars, storeVars, status_seen_round,
                   offers_round, declined_round, invited_round, configVars,
                   roundVars, extVars, rounds_data, sent>>

\* faulty variant: the round id of the offer is not compared
OfferInWindow_AnyRound(rid) ==
    /\ round_deadline_ts > 0
    /\ now <= round_deadline_ts

\* faulty variant: the clock is not compared with the deadline
OfferInWindow_NoDeadline(rid) ==
    /\ rid = round_id
    /\ round_deadline_ts > 0

\* "rid == R and round_deadline_ts > 0.0 and now <= round_deadline_ts"
OfferInWindow(rid) ==
    /\ rid = round_id
    /\ round_deadline_ts > 0
    /\ now <= round_deadline_ts

\* faulty variant: an offer outside the window is dropped without an event
RecvEnergyOffer_SilentLate(sender, rid, offer, price) ==
    /\ Received("energy_offer", sender,
                IF SenderOffline(sender)
                THEN (IF OfferInWindow(rid) THEN "offline_in_window" ELSE "offline")
                ELSE IF OfferInWindow(rid) THEN "stored"
                ELSE IF rid # round_id THEN "stale" ELSE "late")
    /\ IF SenderOffline(sender)
       THEN UNCHANGED <<offers_round, auction_log>>
       ELSE IF OfferInWindow(rid)
       THEN /\ offers_round' =
                 FnPut(offers_round, round_id,
                       DictPut(RoundGet(offers_round, round_id, <<>>), sender,
                               [offer_kwh |-> offer, price |-> price, ts |-> now]))
            /\ auction_log' = Append(auction_log,
                                     Event("offer", sender, offer, 0, NoPeer,
                                           price, round_id))
       ELSE UNCHANGED <<offers_round, auction_log>>
    /\ UNCHANGED <<pc, now, wake_ts, round_id, round_start_ts, round_deadline_ts,
                   clockVars, knownVars, storeVars, status_seen_round,
                   requests_round, declined_round, invited_round, configVars,
                   roundVars, extVars, rounds_data, sent>>

\* the energy_offer branch of Receiver.run
RecvEnergyOffer(sender, rid, offer, price) ==
    /\ Received("energy_offer", sender,
                IF SenderOffline(sender)
                THEN (IF OfferInWindow(rid) THEN "offline_in_window" ELSE "offline")
                ELSE IF OfferInWindow(rid) THEN "stored"
                ELSE IF rid # round_id THEN "stale" ELSE "late")
    /\ IF SenderOffline(sender)
       THEN UNCHANGED <<offers_round, auction_log>>
       ELSE IF OfferInWindow(rid)
       THEN /\ offers_round' =
                 FnPut(offers_round, round_id,
                       DictPut(RoundGet(offers_round, round_id, <<>>), sender,
                               [offer_kwh |-> offer, price |-> price, ts |-> now]))
            /\ auction_log' = Append(auction_log,
                                     Event("offer", sender, offer, 0, NoPeer,
                                           price, round_id))
       ELSE /\ auction_log' = Append(auction_log,
                                     Event("late", sender, offer, 0, NoPeer,
                                           price, rid))
            /\ UNCHANGED offers_round
    /\ UNCHANGED <<pc, now, wake_ts, round_id, round_start_ts, round_deadline_ts,
                   clockVars, knownVars, storeVars, status_seen_round,
                   requests_round, declined_round, invited_round, configVars,
                   roundVars, extVars, rounds_data, sent>>

\* "if rid == R" of the declined_offer branch
DeclineIsCurrent(rid) == rid = round_id

RecvDeclinedOffer(sender, rid) ==
    /\ Received("declined_offer", sender,
                IF DeclineIsCurrent(rid) THEN "stored" ELSE "stale")
    /\ IF DeclineIsCurrent(rid)
       THEN /\ declined_round' =
                 FnPut(declined_round, round_id,
                       RoundGet(declined_round, round_id, {}) \cup {sender})
            /\ auction_log' = Append(auction_log,
                                     Event("declined", sender, 0, 0, NoPeer,
                                           NoPrice, round_id))
       ELSE UNCHANGED <<declined_round, auction_log>>
    /\ UNCHANGED <<pc, now, wake_ts, round_id, round_start_ts, round_deadline_ts,
                   clockVars, knownVars, storeVars, status_seen_round,
                   offers_round, requests_round, invited_round, configVars,
                   roundVars, extVars, rounds_data, sent>>


\* ------------------------------------------------------------------------
\* What the participants may send
\* ------------------------------------------------------------------------
StatusData(h) ==
    IF h = "h1"
    THEN {[is_prosumer |-> FALSE, demand_kwh |-> 300, prod_kwh |-> 0,
           battery_kwh |-> 0]}
    ELSE {[is_prosumer |-> TRUE, demand_kwh |-> 100, prod_kwh |-> 400,
           battery_kwh |-> 400]}

\* ProducerAgent reports its own flags, which it never lowers
ProductionData ==
    {[prod_kwh |-> p, is_operational |-> TRUE, failure_rounds_remaining |-> 0,
      failure_rounds_total |-> 0] : p \in {0, 500}}

BatteryData ==
    {[soc_kwh |-> soc, cap_kwh |-> 5000, emergency_only |-> TRUE] :
        soc \in {2000, 5000}}

\* round ids a participant can have learnt from a call for offers
KnownRids == {round_id} \cup {rounds_data[i].round_id : i \in 1..Len(rounds_data)}

NoLimits == [r \in {"consumer", "prosumer", "producer", "storage"} |-> NoLimit]

ZeroExtGrid == [total_bought_kwh |-> 0, total_sold_kwh |-> 0, revenue |-> 0,
                costs |-> 0, rounds_available |-> 0, rounds_unavailable |-> 0]

\* GridNodeAgent.__init__ and setup
InitAgent ==
    /\ pc = "startup"
    /\ now = 1
    /\ wake_ts = 1
    /\ round_id = NoRound
    /\ round_start_ts = 0
    /\ round_deadline_ts = 0
    /\ round_counter = 1
    /\ sim_hour = 7
    /\ sim_day = 1
    /\ known_households = {}
    /\ known_producers = {}
    /\ known_storage = {}
    /\ households_state = <<>>
    /\ producers_state = <<>>
    /\ storage_state = <<>>
    /\ any_producer_failed = FALSE
    /\ status_seen_round = <<>>
    /\ offers_round = <<>>
    /\ requests_round = <<>>
    /\ declined_round = <<>>
    /\ invited_round = <<>>
    /\ auction_log = <<>>
    /\ external_grid_buy_price = 0
    /\ external_grid_sell_price = 0
    /\ ext_grid = ZeroExtGrid
    /\ rounds_data = <<>>
    /\ sent = <<>>
    /\ failure_watch = [p \in Producers |-> [k |-> 0, reports |-> 0, round |-> 0]]
    /\ recv_note = ""
    /\ EmptyRound

Init ==
    /\ InitAgent
    /\ NoPeers
    /\ recv_budget = MaxRecv
    /\ round_limit = MaxRounds
    /\ transmission_limit_kw = TRANSMISSION_LIMIT_KW
    /\ agent_limits = NoLimits
    /\ producer_failure_probability = 20
    /\ failure_rounds_range = <<1, MaxFailureRounds>>

OrchestratorStep ==
    \/ StartupCoordinator
    \/ StartRound
    \/ \E victim \in 0..Cardinality(Producers),
          d \in failure_rounds_range[1]..failure_rounds_range[2] :
            SyncAndFailure(victim, d)
    \/ ClassifySellers
    \/ ClassifyBuyersAndCFP
    \/ Matching
    \/ \E avail \in BOOLEAN : ExternalGrid(avail, 10, 30)
    \/ RecordRound
    \/ AdvanceTime

Register ==
    \/ \E h \in Households : RecvRegisterHousehold(h)
    \/ \E p \in Producers : RecvRegisterProducer(p)
    \/ \E s \in Storages : RecvRegisterStorage(s)

Reports ==
    \/ \E h \in Households : \E data \in StatusData(h) : RecvStatusReport(h, data)
    \/ \E p \in Producers : \E data \in ProductionData : RecvProductionReport(p, data)
    \/ \E s \in Storages : \E data \in BatteryData : RecvStatusBattery(s, data)

Market ==
    \/ \E b \in Households \cup Storages : \E rid \in KnownRids :
          RecvEnergyRequest(b, rid, 300, 30)
    \/ \E a \in Producers \cup Storages : \E rid \in KnownRids :
          RecvEnergyOffer(a, rid, 200, 20)
    \/ \E a \in Producers : \E rid \in KnownRids : RecvDeclinedOffer(a, rid)

Next == OrchestratorStep \/ Register \/ Reports \/ Market \/ Tick

Spec == Init /\ [][Next]_vars

\* ------------------------------------------------------------------------
\* The coordinator once every expected participant has registered and the
\* startup coordinator has handed over to the round orchestrator
\* ------------------------------------------------------------------------
InitRunningWith(households, producers, storage) ==
    /\ pc = "round_start"
    /\ now = 1
    /\ wake_ts = 2
    /\ round_id = NoRound
    /\ round_start_ts = 0
    /\ round_deadline_ts = 0
    /\ round_counter = 1
    /\ sim_hour = 7
    /\ sim_day = 1
    /\ known_households = households
    /\ known_producers = producers
    /\ known_storage = storage
    /\ any_producer_failed = FALSE
    /\ status_seen_round = <<>>
    /\ offers_round = <<>>
    /\ requests_round = <<>>
    /\ declined_round = <<>>
    /\ invited_round = <<>>
    /\ auction_log = <<>>
    /\ external_grid_buy_price = 0
    /\ external_grid_sell_price = 0
    /\ ext_grid = ZeroExtGrid
    /\ rounds_data = <<>>
    /\ sent = <<EnvRequest(7)>>
    /\ failure_watch = [p \in Producers |-> [k |-> 0, reports |-> 0, round |-> 0]]
    /\ recv_note = ""
    /\ EmptyRound

InitRunning == InitRunningWith(Households, Producers, Storages)

\* the initial reports of InitialSetup, as the receiver stores them
Reported(prod_kwh) ==
    [prod_kwh |-> prod_kwh, is_operational |-> TRUE,
     failure_rounds_remaining |-> 0, failure_rounds_total |-> 0]

\* Failure controller and production-report merge under arbitrary timing of
\* production and battery reports
InitFailure ==
    /\ InitRunning
    /\ NoPeers
    /\ recv_budget = MaxRecv
    /\ round_limit = MaxRounds
    /\ households_state = <<>>
    /\ producers_state = <<[k |-> "p1", v |-> Reported(500)],
                           [k |-> "p2", v |-> Reported(500)]>>
    /\ storage_state \in {[s \in Storages |-> d] : d \in BatteryData}
    /\ transmission_limit_kw = TRANSMISSION_LIMIT_KW
    /\ agent_limits = NoLimits
    /\ producer_failure_probability = 20
    /\ failure_rounds_range = <<1, MaxFailureRounds>>

NextFailure ==
    \/ StartRound
    \/ \E victim \in 0..Cardinality(Producers),
          d \in failure_rounds_range[1]..failure_rounds_range[2] :
            SyncAndFailure(victim, d)
    \/ ClassifySellers
    \/ ClassifyBuyersAndCFP
    \/ Matching
    \/ ExternalGrid(TRUE, 10, 30)
    \/ RecordRound
    \/ AdvanceTime
    \/ \E p \in Producers : RecvProductionReport(p, Reported(500))
    \/ \E s \in Storages : \E data \in BatteryData : RecvStatusBattery(s, data)
    \/ Tick

SpecFailure == InitFailure /\ [][NextFailure]_vars

\* ------------------------------------------------------------------------
\* One round at the end of its offer window: every ledger the receiver can
\* have filled, then matching, the external grid and the round record
\* ------------------------------------------------------------------------
Roles == {"consumer", "prosumer", "producer", "storage"}

\* per-role limits of the capacity enforcer: none, or 2.5 kWh for every role
LimitChoices == {NoLimits, [r \in Roles |-> 250]}

MatchSellers == {"p1", "h2", "s1"}
MatchBuyers == {"h1", "h2"}

\* the offers a seller can have made at time ts
OfferDataAt(ts) ==
    {[offer_kwh |-> o[1], price |-> o[2], ts |-> ts] :
        o \in {<<1, 20>>, <<200, 20>>, <<500, 20>>, <<200, 30>>}}

OfferData == OfferDataAt(10)

RequestData ==
    {[need_kwh |-> need, price_max |-> price_max] :
        need \in {100, 500}, price_max \in {10, 25}}

\* the dicts of at most MaxLedger entries with distinct keys
Ledgers(keys, vals) ==
    UNION {{d \in [1..n -> [k : keys, v : vals]] :
               \A i, j \in 1..n : i # j => d[i].k # d[j].k} : n \in 0..MaxLedger}

\* round number `counter`, started at t0, at the instant its offer window has
\* closed, with the external-grid totals and the round records left by the
\* rounds before it
MatchRoundWith(t0, counter, totals, records, offer_data, request_data, limit_kw) ==
    /\ pc = "matching"
    /\ now = t0 + 13
    /\ wake_ts = t0 + 13
    /\ round_id = t0
    /\ round_start_ts = t0
    /\ round_deadline_ts = t0 + 12
    /\ round_counter = counter
    /\ sim_hour = 6 + counter
    /\ sim_day = 1
    /\ known_households = Households
    /\ known_producers = Producers
    /\ known_storage = Storages
    /\ households_state =
         [h \in Households |-> CHOOSE d \in StatusData(h) : TRUE]
    /\ producers_state = <<[k |-> "p1", v |-> Reported(500)],
                           [k |-> "p2", v |-> Reported(500)]>>
    /\ storage_state = [s \in Storages |->
                          [soc_kwh |-> 5000, cap_kwh |-> 5000, emergency_only |-> TRUE]]
    /\ any_producer_failed = FALSE
    /\ status_seen_round = [r \in {t0} |-> Agents]
    /\ \E offers \in Ledgers(MatchSellers, offer_data) :
         /\ offers_round = [r \in {t0} |-> offers]
         /\ sellers = DictKeys(offers)
         /\ invited_round = [r \in {t0} |-> DictKeys(offers)]
    /\ \E requests \in Ledgers(MatchBuyers, request_data) :
         requests_round = [r \in {t0} |-> requests]
    /\ declined_round = <<>>
    /\ auction_log = <<>>
    /\ transmission_limit_kw = limit_kw
    /\ agent_limits \in LimitChoices
    /\ producer_failure_probability = 20
    /\ failure_rounds_range = <<1, MaxFailureRounds>>
    /\ reqs = <<>>
    /\ seller_remaining = <<>>
    /\ buyer_received_kw = <<>>
    /\ buyer_caps = <<>>
    /\ buyer_fulfillment = <<>>
    /\ tally = ZeroTally
    /\ matches = <<>>
    /\ ext_round = NoExtRound
    /\ external_grid_buy_price = 0
    /\ external_grid_sell_price = 0
    /\ ext_grid = totals
    /\ rounds_data = records
    /\ sent = <<>>
    /\ recv_budget = 0
    /\ round_limit = counter
    /\ failure_watch = [p \in Producers |-> [k |-> 0, reports |-> 0, round |-> 0]]
    /\ recv_note = ""
    /\ NoPeers

\* the same under the configured transmission limit, the offers made 8 s
\* into the round
MatchRoundOf(t0, counter, totals, records, request_data) ==
    MatchRoundWith(t0, counter, totals, records, OfferDataAt(t0 + 8), request_data,
                   TRANSMISSION_LIMIT_KW)

MatchRound(t0, counter, totals, records) ==
    MatchRoundOf(t0, counter, totals, records, RequestData)

\* the first round of a fresh agent
InitMatch == MatchRound(2, 1, ZeroExtGrid, <<>>)

\* what a first round in which the grid served h1 (3.0 of 5.0 kWh at 0.20)
\* and absorbed the 2.0 kWh nobody could afford from p1 (at 0.10) leaves
EarlierExtGrid ==
    [total_bought_kwh |-> 200, total_sold_kwh |-> 300, revenue |-> 6000,
     costs |-> 2000, rounds_available |-> 1, rounds_unavailable |-> 0]

EarlierRecord ==
    [round_num |-> 1, round_id |-> 2, total_demand |-> 500, total_supplied |-> 300,
     market_value |-> 6000, wasted_energy |-> 200, ext_grid_sold |-> 300,
     ext_grid_bought |-> 200,
     buyer_fulfillment |-> [b \in {"h1"} |-> [recv |-> 300, need |-> 500]],
     any_producer_failed |-> FALSE, avg_below_99 |-> TRUE, blackout |-> TRUE,
     blackout_impacted |-> 1]

\* the second round, after that first one
InitExt == MatchRound(30, 2, EarlierExtGrid, <<EarlierRecord>>)

NextMatch ==
    \/ Matching
    \/ \E avail \in BOOLEAN, sell_price \in {20, 30} : ExternalGrid(avail, 10, sell_price)
    \/ RecordRound

SpecMatch == InitMatch /\ [][NextMatch]_vars

SpecExt == InitExt /\ [][NextMatch]_vars

\* needs the transmission limit of 3.0 kWh falls just short of (3.05 kWh is
\* served to 98.4 %) next to needs it covers
BlackoutRequestData ==
    {[need_kwh |-> need, price_max |-> 25] : need \in {100, 305}}

InitBlackout == MatchRoundOf(2, 1, ZeroExtGrid, <<>>, BlackoutRequestData)

SpecBlackout == InitBlackout /\ [][NextMatch]_vars

\* ------------------------------------------------------------------------
\* The market messages of the participants, under arbitrary timing, with
\* rounds, the failure step and production reports
\* ------------------------------------------------------------------------
\* the round ids a participant can have learnt from a call for offers
AnnouncedRids ==
    {sent[i].round_id : i \in {j \in 1..Len(sent) : sent[j].type = "call_for_offers"}}
    \cup {rounds_data[i].round_id : i \in 1..Len(rounds_data)}

MarketConfig(failure_probability, rounds_range) ==
    /\ InitRunning
    /\ recv_budget = MaxRecv
    /\ round_limit = MaxRounds
    /\ households_state = [h \in Households |-> CHOOSE d \in StatusData(h) : TRUE]
    /\ producers_state = <<[k |-> "p1", v |-> Reported(500)],
                           [k |-> "p2", v |-> Reported(500)]>>
    /\ storage_state = [s \in Storages |->
                          [soc_kwh |-> 5000, cap_kwh |-> 5000, emergency_only |-> TRUE]]
    /\ transmission_limit_kw = TRANSMISSION_LIMIT_KW
    /\ agent_limits = NoLimits
    /\ producer_failure_probability = failure_probability
    /\ failure_rounds_range = rounds_range

RoundSteps ==
    \/ StartRound
    \/ \E victim \in 0..Cardinality(Producers),
          d \in failure_rounds_range[1]..failure_rounds_range[2] :
            SyncAndFailure(victim, d)
    \/ ClassifySellers
    \/ ClassifyBuyersAndCFP
    \/ Matching
    \/ ExternalGrid(TRUE, 10, 30)
    \/ RecordRound
    \/ AdvanceTime
    \/ Tick

\* offers of the producers, with failures and production reports
InitMarket == MarketConfig(20, <<2, 2>>) /\ NoPeers

NextMarket ==
    \/ RoundSteps
    \/ \E p \in Producers : RecvProductionReport(p, Reported(500))
    \/ \E a \in Producers : \E rid \in AnnouncedRids \cap {round_id} :
          RecvEnergyOffer(a, rid, 200, 20)
    \/ \E rid \in AnnouncedRids \cap {round_id} : RecvEnergyRequest("h1", rid, 300, 30)

SpecMarket == InitMarket /\ [][NextMarket]_vars

\* offers, requests and declines of every announced round, without failures
InitStale == MarketConfig(0, <<1, MaxFailureRounds>>) /\ NoPeers

NextStale ==
    \/ RoundSteps
    \/ RecvProductionReport("p1", Reported(500))
    \/ \E a \in Producers : \E rid \in AnnouncedRids : RecvEnergyOffer(a, rid, 200, 20)
    \/ \E rid \in AnnouncedRids : RecvEnergyRequest("h1", rid, 300, 30)
    \/ \E rid \in AnnouncedRids : RecvDeclinedOffer("p2", rid)

SpecStale == InitStale /\ [][NextStale]_vars

\* ------------------------------------------------------------------------
\* The storage unit (StorageManagerAgent): its RoundReceiver, the one-shot
\* behaviours the receiver starts, and its Monitor
\* ------------------------------------------------------------------------
STORAGE_CAPACITY_KWH == 5000
STORAGE_ASK_PRICE == 25
STORAGE_MAX_PRICE == 35

\* StorageManagerAgent.__init__
StorageUnit(soc_kwh, emergency_only) ==
    [soc_kwh |-> soc_kwh, cap_kwh |-> STORAGE_CAPACITY_KWH,
     emergency_only |-> emergency_only,
     active_round_id |-> NoRound, round_deadline_ts |-> 0,
     \* the behaviour added by the receiver and not yet run
     task |-> "",
     \* how many of the coordinator's messages of which round were taken
     read |-> [round |-> NoRound, n |-> 0],
     \* messages sent to the coordinator and not yet received by it
     outbox |-> <<>>,
     \* did the last offer leave the reserve of 20 % untouched?
     reserve_held |-> FALSE]

\* the coordinator's messages of the current round addressed to s, in the
\* order they were sent, and how many of them s has taken
Mailbox(s) == SelectSeq(sent, LAMBDA m : m.to = s)

ReadCount(s) ==
    IF storage_unit[s].read.round = round_id THEN storage_unit[s].read.n ELSE 0

HasMail(s) == ReadCount(s) < Len(Mailbox(s))

\* faulty variant: an emergency-only unit offers whatever the CFP says
TaskOnCFP_AlwaysOffer(u, producers_failed) ==
    IF u.emergency_only
    THEN (IF 5 * u.soc_kwh > u.cap_kwh THEN "OfferEnergyEmergency"
          ELSE IF 100 * u.soc_kwh < 99 * u.cap_kwh THEN "RequestEnergy"
          ELSE "")
    ELSE (IF 100 * u.soc_kwh < 95 * u.cap_kwh THEN "RequestEnergy"
          ELSE "OfferEnergy")

\* "EMERGENCY MODE LOGIC" / "NORMAL MODE": the behaviour a CFP starts
TaskOnCFP(u, producers_failed) ==
    IF u.emergency_only
    THEN (IF producers_failed /\ 5 * u.soc_kwh > u.cap_kwh THEN "OfferEnergyEmergency"
          ELSE IF 100 * u.soc_kwh < 99 * u.cap_kwh THEN "RequestEnergy"
          ELSE "")
    ELSE (IF 100 * u.soc_kwh < 95 * u.cap_kwh THEN "RequestEnergy"
          ELSE "OfferEnergy")

\* faulty variant: the whole charge is offered
AvailableAboveReserve_All(u) == u.soc_kwh

\* "available = soc_kwh - 0.20 * cap_kwh"
AvailableAboveReserve(u) == u.soc_kwh - u.cap_kwh \div 5

\* RoundReceiver.run on one message of the coordinator
StorageOnMessage(u, m) ==
    CASE m.type = "call_for_offers" ->
            [u EXCEPT !.active_round_id = m.round_id,
                      !.round_deadline_ts = m.kw,
                      !.task = TaskOnCFP(u, m.flag)]
      [] m.type = "control_command" ->
            [u EXCEPT !.soc_kwh = Min(u.soc_kwh + m.kw, u.cap_kwh)]
      [] m.type = "offer_accept" ->
            [u EXCEPT !.soc_kwh = Max(u.soc_kwh - m.kw, 0)]
      [] OTHER -> u

\* the receiver takes its next message; a behaviour it has started runs
\* before it takes another one
StorageReceive(s) ==
    /\ s \in DOMAIN storage_unit
    /\ storage_unit[s].task = ""
    /\ HasMail(s)
    /\ storage_unit' =
         [storage_unit EXCEPT ![s] =
            [StorageOnMessage(@, Mailbox(s)[ReadCount(s) + 1]) EXCEPT
                !.read = [round |-> round_id, n |-> ReadCount(s) + 1]]]
    /\ UNCHANGED <<pc, now, wake_ts, round_id, round_start_ts, round_deadline_ts,
                   clockVars, knownVars, storeVars, ledgerVars, auction_log,
                   configVars, roundVars, extVars, rounds_data, sent,
                   recv_budget, round_limit, failure_watch, recv_note,
                   env_served, report_pending>>

StorageMsg(type, rid, kwh, price) ==
    [type |-> type, round_id |-> rid, kwh |-> kwh, price |-> price]

\* RequestEnergy.run, OfferEnergyEmergency.run and OfferEnergy.run
StorageBehaviour(u, price_max) ==
    LET R == u.active_round_id
        needed == u.cap_kwh - u.soc_kwh
        available == AvailableAboveReserve(u)
        done == [u EXCEPT !.task = ""]
        offer == [done EXCEPT
                    !.outbox = Append(@, StorageMsg("energy_offer", R, available,
                                                    STORAGE_ASK_PRICE)),
                    !.reserve_held = 5 * u.soc_kwh >= u.cap_kwh]
    IN  IF R = NoRound THEN done
        ELSE CASE u.task = "RequestEnergy" ->
                    IF needed > 50
                    THEN [done EXCEPT
                            !.outbox = Append(@, StorageMsg("energy_request", R,
                                                            needed, price_max))]
                    ELSE done
               [] u.task = "OfferEnergyEmergency" ->
                    IF available > 50 /\ now <= u.round_deadline_ts THEN offer ELSE done
               [] u.task = "OfferEnergy" ->
                    IF available > 0 /\ now <= u.round_deadline_ts THEN offer ELSE done
               [] OTHER -> done

\* the prices round(price_max * (1 + uniform(-0.02, 0.02)), 2) can give
\* (34 to 36 cents); the middle one is followed
StoragePriceMax == {STORAGE_MAX_PRICE}

StorageRunTask(s, price_max) ==
    /\ s \in DOMAIN storage_unit
    /\ storage_unit[s].task # ""
    /\ storage_unit' =
         [storage_unit EXCEPT ![s] = StorageBehaviour(@, price_max)]
    /\ UNCHANGED <<pc, now, wake_ts, round_id, round_start_ts, round_deadline_ts,
                   clockVars, knownVars, storeVars, ledgerVars, auction_log,
                   configVars, roundVars, extVars, rounds_data, sent,
                   recv_budget, round_limit, failure_watch, recv_note,
                   env_served, report_pending>>

\* the coordinator receives the oldest message of the unit
StorageDeliver(s) ==
    /\ s \in DOMAIN storage_unit
    /\ storage_unit[s].outbox # <<>>
    /\ LET m == Head(storage_unit[s].outbox)
       IN  IF m.type = "energy_offer"
           THEN RecvEnergyOffer(s, m.round_id, m.kwh, m.price)
           ELSE RecvEnergyRequest(s, m.round_id, m.kwh, m.price)

\* Monitor.run, its report received at once; one is followed per round,
\* during the status wait
StorageMonitor(s) ==
    /\ s \in DOMAIN storage_unit
    /\ pc = "sync"
    /\ s \notin RoundGet(status_seen_round, round_id, {})
    /\ RecvStatusBattery(s, [soc_kwh |-> storage_unit[s].soc_kwh,
                             cap_kwh |-> storage_unit[s].cap_kwh,
                             emergency_only |-> storage_unit[s].emergency_only])

\* the unit has taken every message of the round and is idle
StorageQuiet ==
    \A s \in DOMAIN storage_unit : ~HasMail(s) /\ storage_unit[s].task = ""

\* a behaviour a unit has started and a message it has sent take less than
\* a second: the clock moves when no unit has either
StoragePrompt ==
    \A s \in DOMAIN storage_unit :
        storage_unit[s].task = "" /\ storage_unit[s].outbox = <<>>

\* the call for offers of the round is out and its deadline has not passed
InOfferWindow ==
    /\ round_id \in AnnouncedRids
    /\ pc = "matching"
    /\ now < round_deadline_ts

\* the charge a unit starts with: full, close to the reserve, below it
StorageCharges == {STORAGE_CAPACITY_KWH, 1200, 900}

InitStorage ==
    /\ InitRunning
    /\ recv_budget = MaxRecv * MaxRounds
    /\ round_limit = MaxRounds
    /\ households_state = [h \in Households |-> CHOOSE d \in StatusData(h) : TRUE]
    /\ producers_state = <<[k |-> "p1", v |-> Reported(500)],
                           [k |-> "p2", v |-> Reported(500)]>>
    /\ \E soc \in StorageCharges, emergency_only \in BOOLEAN :
          /\ storage_unit = [s \in Storages |-> StorageUnit(soc, emergency_only)]
          /\ storage_state = [s \in Storages |->
                                [soc_kwh |-> soc, cap_kwh |-> STORAGE_CAPACITY_KWH,
                                 emergency_only |-> emergency_only]]
    /\ env_served = 0
    /\ report_pending = <<>>
    /\ transmission_limit_kw = TRANSMISSION_LIMIT_KW
    /\ agent_limits = NoLimits
    /\ producer_failure_probability = 100
    /\ failure_rounds_range = <<MaxFailureRounds, MaxFailureRounds>>

NextStorage ==
    \/ StorageQuiet /\ StartRound
    \/ \E victim \in 0..Cardinality(Producers),
          d \in failure_rounds_range[1]..failure_rounds_range[2] :
            SyncAndFailure(victim, d)
    \/ ClassifySellers
    \/ ClassifyBuyersAndCFP
    \/ Matching
    \/ \E avail \in BOOLEAN : ExternalGrid(avail, 10, 30)
    \/ RecordRound
    \/ AdvanceTime
    \/ StoragePrompt /\ Tick
    \/ \E s \in Storages : StorageReceive(s)
    \/ \E s \in Storages : \E price_max \in StoragePriceMax : StorageRunTask(s, price_max)
    \/ \E s \in Storages : StorageDeliver(s)
    \/ \E s \in Storages : StorageMonitor(s)
    \/ /\ InOfferWindow
       /\ ~DictHas(RoundGet(offers_round, round_id, <<>>), "p2")
       /\ RecvEnergyOffer("p2", round_id, 200, 20)
    \/ /\ InOfferWindow
       /\ ~DictHas(RoundGet(requests_round, round_id, <<>>), "h1")
       /\ RecvEnergyRequest("h1", round_id, 500, 30)

SpecStorage == InitStorage /\ [][NextStorage]_vars

\* ------------------------------------------------------------------------
\* Failure-injection scenario: failure probability 1, failures of exactly
\* two rounds, the storage unit full at the start, two operational
\* producers, and every producer's production report of a round received
\* during that round's status wait
\* ------------------------------------------------------------------------
SeenThisRound == RoundGet(status_seen_round, round_id, {})

InitS5 ==
    /\ InitRunning
    /\ NoPeers
    /\ round_limit = MaxRounds + 1
    /\ recv_budget = (Cardinality(Producers) + Cardinality(Storages)) * round_limit
    /\ households_state = <<>>
    /\ producers_state = <<[k |-> "p1", v |-> Reported(500)],
                           [k |-> "p2", v |-> Reported(500)]>>
    /\ storage_state = [s \in Storages |->
                          [soc_kwh |-> 5000, cap_kwh |-> 5000, emergency_only |-> TRUE]]
    /\ transmission_limit_kw = TRANSMISSION_LIMIT_KW
    /\ agent_limits = NoLimits
    /\ producer_failure_probability = 100
    /\ failure_rounds_range = <<2, 2>>

S5ProductionReport ==
    \E p \in Producers :
        /\ pc = "sync"
        /\ p \notin SeenThisRound
        /\ RecvProductionReport(p, Reported(500))

S5BatteryReport ==
    \E s \in Storages : \E data \in BatteryData :
        /\ pc = "sync"
        /\ s \notin SeenThisRound
        /\ RecvStatusBattery(s, data)

S5Sync ==
    /\ Producers \subseteq SeenThisRound
    /\ \E victim \in 0..Cardinality(Producers),
          d \in failure_rounds_range[1]..failure_rounds_range[2] :
            SyncAndFailure(victim, d)

NextS5 ==
    \/ StartRound
    \/ S5ProductionReport
    \/ S5BatteryReport
    \/ S5Sync
    \/ ClassifySellers
    \/ ClassifyBuyersAndCFP
    \/ Matching
    \/ ExternalGrid(TRUE, 10, 30)
    \/ RecordRound
    \/ AdvanceTime
    \/ Tick

SpecS5 == InitS5 /\ [][NextS5]_vars

\* ------------------------------------------------------------------------
\* Properties of the failure controller
\* ------------------------------------------------------------------------
IsOffline(p) ==
    DictHas(producers_state, p) /\ ~DictGet(producers_state, p).is_operational

OfflineProducers == {p \in DictKeys(producers_state) : IsOffline(p)}

\* the phases of a round that follow its failure step
AfterFailureStep == {"classify_sellers", "classify_buyers", "matching",
                     "external_grid", "record", "advance"}

\* C5 (failure singleton): in every reachable state, whatever the
\* interleaving of failure steps and production reports, at most one
\* producer of producers_state has is_operational = False.
C5_FailureSingleton == Cardinality(OfflineProducers) <= 1

\* a later failure step has run while a producer was already held offline,
\* and has left the other producer operational
C5_Witness ==
    /\ pc = "classify_sellers"
    /\ \E p \in OfflineProducers : failure_watch[p].reports >= 1
    /\ StorageFull
    /\ Cardinality(OfflineProducers) = 1

\* C6 (recovery count), as the code has it: a producer marked offline with
\* failure_rounds_total = k >= 1 is still held offline after each of its
\* next k-1 production reports, with failure_rounds_remaining counting down
\* from k, and its k-th production report makes it operational again.
C6_RecoveryOnKth ==
    \A p \in DictKeys(producers_state) :
        LET w == failure_watch[p]
            st == DictGet(producers_state, p)
        IN  w.k >= 1 =>
              /\ w.reports <= w.k
              /\ st.is_operational <=> w.reports = w.k
              /\ ~st.is_operational =>
                    /\ st.failure_rounds_remaining = w.k - w.reports
                    /\ st.failure_rounds_total = w.k

\* a producer failed for k >= 2 rounds is operational again after k reports
C6_Witness ==
    \E p \in DictKeys(producers_state) :
        /\ failure_watch[p].k >= 2
        /\ failure_watch[p].reports = failure_watch[p].k
        /\ DictGet(producers_state, p).is_operational

\* C6 as the specification states it: the producer is still held offline
\* after each of the next k production reports (the (k+1)-th recovers it).
C6_StillOfflineAfterK ==
    \A p \in DictKeys(producers_state) :
        (failure_watch[p].k >= 1 /\ failure_watch[p].reports \in 1..failure_watch[p].k)
            => IsOffline(p)

\* the state part and the step part of the failure-injection scenario
C7_State ==
    /\ Cardinality(OfflineProducers) <= 1
    /\ pc \in AfterFailureStep => (any_producer_failed <=> OfflineProducers # {})
    /\ \A p \in DictKeys(producers_state) :
          failure_watch[p].k >= 1 =>
            /\ failure_watch[p].k = 2
            /\ ~IsOffline(p) <=> failure_watch[p].reports = 2
            /\ pc \in AfterFailureStep =>
                  (IsOffline(p) <=> round_counter - failure_watch[p].round < 2)

C7_MarksOne ==
    (pc = "sync" /\ pc' = "classify_sellers" /\ StorageFull /\ OfflineProducers = {})
        => Cardinality(OfflineProducers') = 1

\* C7 (failure-injection scenario), as the code has it: a failure step that
\* finds the storage unit full and no producer offline marks exactly one
\* producer offline; at most one producer is offline at any time; the marked
\* producer is held offline, and any_producer_failed is true, at
\* classification and CFP time of exactly two consecutive rounds, the round
\* of the failure and the next one; it recovers on its 2nd production report
\* after the failure, in the status wait of the round after those two, and
\* any_producer_failed is then false unless a failure step has marked a
\* producer offline anew.
C7_Scenario == []C7_State /\ [][C7_MarksOne]_vars

\* the failed producer is back, two rounds after the round of its failure,
\* and no producer is offline at the CFP of that round
C7_Witness ==
    /\ pc = "matching"
    /\ OfflineProducers = {}
    /\ ~any_producer_failed
    /\ \E p \in DictKeys(producers_state) :
          /\ failure_watch[p].k = 2
          /\ failure_watch[p].reports = 2
          /\ round_counter = failure_watch[p].round + 2

\* C7 as the specification states it: the failed producer is operational
\* again only with the 3rd production report after the failure.
C7_RecoversOnThird ==
    \A p \in DictKeys(producers_state) :
        (failure_watch[p].k = 2 /\ ~IsOffline(p)) => failure_watch[p].reports = 3

\* ------------------------------------------------------------------------
\* Properties of the matching and of the external-grid step
\* ------------------------------------------------------------------------
RECURSIVE SumSeq(_, _)
SumSeq(q, n) == IF n = 0 THEN 0 ELSE q[n] + SumSeq(q, n - 1)

\* internal allocations of the current round, per seller and per buyer
AllocatedFrom(s) ==
    SumSeq([i \in 1..Len(matches) |->
               IF matches[i].seller = s THEN matches[i].kwh ELSE 0], Len(matches))

AllocatedTo(b) ==
    SumSeq([i \in 1..Len(matches) |->
               IF matches[i].buyer = b THEN matches[i].kwh ELSE 0], Len(matches))

ExternalTo(b) == RoundGet(ext_round.delivered, b, 0)

CurrentOffers == RoundGet(offers_round, round_id, <<>>)

MatchingDone == pc \in {"external_grid", "record", "advance"}

\* what a seller can deliver: its offer, cut to its effective sell limit
OfferWithinLimit(s) ==
    LET offer_kwh == DictGet(CurrentOffers, s).offer_kwh
        lim == EffectiveLimit(s, "sell")
    IN  Max(0, IF lim = NoLimit THEN offer_kwh ELSE Min(offer_kwh, lim))

\* C1 (conservation), as the code has it: when internal matching of a round
\* has finished, for every seller s with an offer in offers[R], the kWh of
\* all internal allocations from s plus seller_remaining[s] equals the
\* deliverable part of the offer, min(offer_kwh, effective sell limit of s),
\* which is offer_kwh when s has no limit.
C1_Conservation ==
    MatchingDone =>
        \A s \in DictKeys(CurrentOffers) :
            AllocatedFrom(s) + seller_remaining[s] = OfferWithinLimit(s)

\* a seller whose limit cut its offer has sold a part and kept a part
C1_Witness ==
    /\ MatchingDone
    /\ \E s \in DictKeys(CurrentOffers) :
          /\ OfferWithinLimit(s) < DictGet(CurrentOffers, s).offer_kwh
          /\ AllocatedFrom(s) > 0
          /\ seller_remaining[s] > 0

\* C1 as the specification states it: allocations plus remainder equal the
\* offer_kwh of the offer.
C1_EqualsOffer ==
    MatchingDone =>
        \A s \in DictKeys(CurrentOffers) :
            AllocatedFrom(s) + seller_remaining[s] = DictGet(CurrentOffers, s).offer_kwh

\* C2 (buyer cap): for every buyer b with a request in the round, the kWh of
\* all internal allocations to b is at most need_kwh(b), and so is that sum
\* plus the external-grid delivery to b.
C2_BuyerCap ==
    MatchingDone =>
        \A b \in DictKeys(reqs) :
            /\ AllocatedTo(b) <= DictGet(reqs, b).need_kwh
            /\ AllocatedTo(b) + ExternalTo(b) <= DictGet(reqs, b).need_kwh

\* a buyer served in full by sellers and the external grid together
C2_Witness ==
    /\ pc = "record"
    /\ \E b \in DictKeys(reqs) :
          /\ AllocatedTo(b) > 0
          /\ ExternalTo(b) > 0
          /\ AllocatedTo(b) + ExternalTo(b) = DictGet(reqs, b).need_kwh

\* C3 (transmission cap): for every buyer b the kWh allocated by internal
\* matching plus the kWh delivered by the external grid never exceeds
\* TRANSMISSION_LIMIT_KW; a need of 5.0 kWh against one affordable offer of
\* 5.0 kWh, with no agent limit, is allocated exactly the limit of 3.0 kWh.
C3_TransmissionCap ==
    MatchingDone =>
        /\ \A b \in DictKeys(reqs) :
              AllocatedTo(b) + ExternalTo(b) <= transmission_limit_kw
        /\ (/\ Len(reqs) = 1
            /\ Len(CurrentOffers) = 1
            /\ agent_limits = NoLimits
            /\ reqs[1].v.need_kwh = 500
            /\ CurrentOffers[1].v.offer_kwh = 500
            /\ CurrentOffers[1].v.price <= reqs[1].v.price_max)
           => AllocatedTo(reqs[1].k) = TRANSMISSION_LIMIT_KW

\* the 5.0 / 5.0 / 3.0 example, with its transmission_limit event
C3_Witness ==
    /\ pc = "record"
    /\ Len(reqs) = 1
    /\ Len(CurrentOffers) = 1
    /\ reqs[1].v.need_kwh = 500
    /\ CurrentOffers[1].v.offer_kwh = 500
    /\ AllocatedTo(reqs[1].k) = 300
    /\ \E i \in 1..Len(auction_log) :
          /\ auction_log[i].event = "transmission_limit"
          /\ auction_log[i].a = 500
          /\ auction_log[i].b = 300

\* C4 (price admissibility): every internal allocation has a price at most
\* the price_max of its buyer's request, and every external-grid delivery is
\* made at a sell price at most the buyer's price_max.
C4_PriceAdmissible ==
    MatchingDone =>
        /\ \A i \in 1..Len(matches) :
              matches[i].price <= DictGet(reqs, matches[i].buyer).price_max
        /\ \A b \in DOMAIN ext_round.delivered :
              external_grid_sell_price <= DictGet(reqs, b).price_max

\* a buyer passed over an offer it could not afford, and bought from a
\* seller and from the external grid
C4_Witness ==
    /\ pc = "record"
    /\ \E b \in DictKeys(reqs) :
          /\ AllocatedTo(b) > 0
          /\ ExternalTo(b) > 0
          /\ \E i \in 1..Len(CurrentOffers) :
                /\ CurrentOffers[i].v.price > DictGet(reqs, b).price_max
                /\ seller_remaining[CurrentOffers[i].k] > 1

\* ------------------------------------------------------------------------
\* Properties of the receiver's market branches
\* ------------------------------------------------------------------------
Ledgers3 == <<offers_round, requests_round, declined_round>>

StaleOfferStep ==
    \E a \in Producers : \E rid \in AnnouncedRids :
        rid # round_id /\ RecvEnergyOffer(a, rid, 200, 20)

StaleRequestStep ==
    \E rid \in AnnouncedRids : rid # round_id /\ RecvEnergyRequest("h1", rid, 300, 30)

StaleDeclineStep ==
    \E rid \in AnnouncedRids : rid # round_id /\ RecvDeclinedOffer("p2", rid)

\* every stored offer was received while its round was current and its
\* window open, and every allocation pairs a seller and a buyer of the
\* current round's own ledgers
LedgersAreOwn ==
    /\ \A r \in DOMAIN offers_round : \A i \in 1..Len(offers_round[r]) :
          /\ offers_round[r][i].v.ts >= r
          /\ r = round_id => offers_round[r][i].v.ts <= round_deadline_ts
    /\ \A i \in 1..Len(matches) :
          /\ matches[i].seller \in DictKeys(CurrentOffers)
          /\ matches[i].buyer \in DictKeys(RoundGet(requests_round, round_id, <<>>))

\* C8 (staleness rejection): an energy_offer, energy_request or
\* declined_offer whose round_id differs from the current round id when it
\* is received changes the offers, requests and declined set of no round,
\* and every allocation is between a seller and a buyer of the current
\* round's ledgers.
C8_Staleness ==
    /\ []LedgersAreOwn
    /\ [][(StaleOfferStep \/ StaleRequestStep \/ StaleDeclineStep)
             => UNCHANGED Ledgers3]_vars

\* in the second round, after an offer of that round was stored, an offer
\* carrying the first round's id was turned away; matching has run since
C8_Witness ==
    /\ MatchingDone
    /\ \E i, j \in 1..Len(auction_log) :
          /\ i < j
          /\ auction_log[i].event = "offer"
          /\ auction_log[i].round_id = round_id
          /\ auction_log[j].event = "late"
          /\ auction_log[j].round_id # round_id
          /\ auction_log[j].agent \notin DictKeys(CurrentOffers)

LateOfferStep(a) == now > round_deadline_ts /\ RecvEnergyOffer(a, round_id, 200, 20)

\* the offer_accept messages of the round go to sellers with a stored offer
AcceptsOnlyStored ==
    \A i \in 1..Len(sent) :
        sent[i].type = "offer_accept" =>
            sent[i].to \in DictKeys(RoundGet(offers_round, sent[i].round_id, <<>>))

StoredOffer(f, r, p) ==
    IF r \in DOMAIN f /\ DictHas(f[r], p) THEN <<DictGet(f[r], p)>> ELSE <<>>

\* C10 (offline producer exclusion): while a producer is held offline no
\* step stores or changes an offer of it in any round, whatever the round_id
\* and the deadline; at matching time no offer of the round belongs to a
\* producer marked offline.
C10_OfflineExcluded ==
    /\ [](pc = "matching" => \A s \in DictKeys(CurrentOffers) : ~IsOffline(s))
    /\ [][\A p \in Producers :
             IsOffline(p) =>
                 \A r \in DOMAIN offers_round' :
                     StoredOffer(offers_round', r, p) = StoredOffer(offers_round, r, p)]_vars

\* matching is due, a producer is offline, its in-window offer was the last
\* market message, and the round's offers hold only the other producer's
C10_Witness ==
    /\ pc = "matching"
    /\ now >= wake_ts
    /\ recv_note = "offline_in_window"
    /\ OfflineProducers # {}
    /\ CurrentOffers # <<>>
    /\ DictKeys(CurrentOffers) \cap OfflineProducers = {}

\* ------------------------------------------------------------------------
\* Properties of the external-grid step
\* ------------------------------------------------------------------------
NamesExternalGrid(msg) ==
    msg.type \in {"control_command", "offer_accept"} /\ msg.peer = "external_grid"

\* the external-grid step of the round has run and its draw was "unavailable"
ExtUnavailableRound == pc \in {"record", "advance"} /\ ~ext_round.available

C11_State ==
    ExtUnavailableRound =>
        /\ ext_round.sold_total = 0
        /\ ext_round.bought_total = 0
        /\ ext_round.delivered = <<>>
        /\ ext_round.absorbed = <<>>
        /\ \A i \in 1..Len(sent) : ~NamesExternalGrid(sent[i])
        /\ pc = "advance" =>
              /\ rounds_data[Len(rounds_data)].ext_grid_sold = 0
              /\ rounds_data[Len(rounds_data)].ext_grid_bought = 0

C11_Step ==
    (pc = "external_grid" /\ pc' = "record" /\ ~ext_round'.available) =>
        /\ ext_grid' = [ext_grid EXCEPT !.rounds_unavailable = @ + 1]
        /\ sent' = sent
        /\ buyer_received_kw' = buyer_received_kw

\* C11 (external-grid non-interference): in a round whose availability draw
\* is false the external grid delivers and absorbs nothing (ext_grid_sold =
\* ext_grid_bought = 0 in the round record), no control_command or
\* offer_accept naming external_grid is sent, the cumulative kWh, revenue and
\* cost counters keep their values, and only ext_grid_rounds_unavailable
\* changes, growing by exactly 1.
C11_NonInterference == []C11_State /\ [][C11_Step]_vars

\* an unavailable round that left a buyer short and a seller with a surplus
\* the grid would have taken, recorded with the earlier totals untouched
C11_Witness ==
    /\ pc = "advance"
    /\ ~ext_round.available
    /\ UnmetDemand(reqs, buyer_received_kw) # {}
    /\ SurplusEnergy(seller_remaining) # {}
    /\ ext_grid = [EarlierExtGrid EXCEPT !.rounds_unavailable = 1]
    /\ rounds_data[Len(rounds_data)].ext_grid_sold = 0
    /\ rounds_data[Len(rounds_data)].ext_grid_bought = 0

\* the earlier round the second round starts from is one the first round
\* can produce
EarlierRoundReached ==
    /\ pc = "advance"
    /\ ext_grid = EarlierExtGrid
    /\ rounds_data = <<EarlierRecord>>

\* ------------------------------------------------------------------------
\* C12  Emergency-reserve floor of a storage unit
\* ------------------------------------------------------------------------
\* the kWh the coordinator has accepted from s in the current round
AcceptedFrom(s) ==
    SumSeq([i \in 1..Len(Mailbox(s)) |->
              IF Mailbox(s)[i].type = "offer_accept" THEN Mailbox(s)[i].kw ELSE 0],
           Len(Mailbox(s)))

\* C12: a storage unit that followed the protocol and held at least 20 % of
\* its capacity when it made its offer still holds at least 20 % of its
\* capacity whatever offer_accept messages it has applied, in every round.
C12_ReserveFloor ==
    \A s \in DOMAIN storage_unit :
        storage_unit[s].reserve_held =>
            5 * storage_unit[s].soc_kwh >= storage_unit[s].cap_kwh

\* a unit that offered all it may, has applied every acceptance of the
\* round, more than one of them, and stands exactly on the reserve
C12_Witness ==
    \E s \in DOMAIN storage_unit :
        /\ storage_unit[s].reserve_held
        /\ ~HasMail(s)
        /\ Cardinality({i \in 1..Len(Mailbox(s)) :
                           Mailbox(s)[i].type = "offer_accept"}) >= 2
        /\ AcceptedFrom(s) = STORAGE_CAPACITY_KWH - STORAGE_CAPACITY_KWH \div 5
        /\ 5 * storage_unit[s].soc_kwh = storage_unit[s].cap_kwh


\* ------------------------------------------------------------------------
\* The status wait: participants registered before the first round or during
\* it, reports of any of them at any moment
\* ------------------------------------------------------------------------
\* who has registered when the first round starts
RegisteredChoices ==
    {<<{"h1"}, {"p1"}, {}>>, <<{"h1"}, Producers, Storages>>}

InitBarrier ==
    /\ \E reg \in RegisteredChoices : InitRunningWith(reg[1], reg[2], reg[3])
    /\ NoPeers
    /\ recv_budget = MaxRecv
    /\ round_limit = MaxRounds
    /\ households_state = <<>>
    /\ producers_state = <<>>
    /\ storage_state = <<>>
    /\ transmission_limit_kw = TRANSMISSION_LIMIT_KW
    /\ agent_limits = NoLimits
    /\ producer_failure_probability = 0
    /\ failure_rounds_range = <<1, 1>>

BarrierSync ==
    \E victim \in 0..Cardinality(Producers),
       d \in failure_rounds_range[1]..failure_rounds_range[2] :
         SyncAndFailure(victim, d)

NextBarrier ==
    \/ StartRound
    \/ BarrierSync
    \/ ClassifySellers
    \/ ClassifyBuyersAndCFP
    \/ Matching
    \/ ExternalGrid(TRUE, 10, 30)
    \/ RecordRound
    \/ AdvanceTime
    \/ Tick
    \/ RecvRegisterHousehold("h2")
    \/ \E h \in Households : \E data \in StatusData(h) : RecvStatusReport(h, data)
    \/ \E p \in Producers : RecvProductionReport(p, Reported(500))
    \/ \E s \in Storages : RecvStatusBattery(s, CHOOSE d \in BatteryData : d.soc_kwh = 2000)

SpecBarrier == InitBarrier /\ [][NextBarrier]_vars

\* ------------------------------------------------------------------------
\* C13  Status barrier (safety)
\* ------------------------------------------------------------------------
Registered == known_households \cup known_producers \cup known_storage

GraceElapsed == now - round_start_ts >= STATUS_GRACE_S

\* the state in which the status wait of the current round may be left
BarrierCondition ==
    \/ Registered \subseteq SeenThisRound
    \/ GraceElapsed /\ SeenThisRound # {}

\* the phases of a round that come after its status wait
PastStatusWait ==
    pc \in {"classify_sellers", "classify_buyers", "matching", "external_grid",
            "record", "advance"}

\* C13: the coordinator leaves the status wait of round R only in a state
\* where every registered participant is in status_seen[R], or the grace
\* window has elapsed and status_seen[R] is not empty; the failure step and
\* what follows it in R never run with status_seen[R] empty.
C13_StatusBarrierSafety ==
    /\ [](PastStatusWait => SeenThisRound # {})
    /\ [][pc = "sync" /\ pc' # "sync" => BarrierCondition]_vars

\* the wait was left on the grace window with a registered participant
\* still silent
C13_Witness ==
    /\ pc = "classify_sellers"
    /\ GraceElapsed
    /\ SeenThisRound # {}
    /\ ~(Registered \subseteq SeenThisRound)

\* the wait was left before the grace window, everyone having reported
BarrierLeftEarly ==
    /\ pc = "classify_sellers"
    /\ ~GraceElapsed
    /\ Registered \subseteq SeenThisRound


\* ------------------------------------------------------------------------
\* C14  Status barrier (liveness)
\* ------------------------------------------------------------------------
\* the coordinator's loop is a task of the event loop that sleeps 0.1 s and
\* looks again: time passes and the loop gets its turn
SpecBarrierFair ==
    /\ SpecBarrier
    /\ WF_vars(Tick)
    /\ WF_vars(BarrierSync)

\* C14: once a report is credited to round R, the coordinator eventually
\* leaves the status wait of R, also when other registered participants
\* never report during R.
C14_StatusBarrierLiveness ==
    (pc = "sync" /\ SeenThisRound # {}) ~> (pc # "sync")

\* the wait of a round was left on a single report, three registered
\* participants staying silent
C14_Witness ==
    /\ pc = "classify_sellers"
    /\ Cardinality(SeenThisRound) = 1
    /\ Cardinality(Registered \ SeenThisRound) >= 3


\* ------------------------------------------------------------------------
\* The round loop with the environment agent and the participants that
\* answer its broadcast: one coordinator, no storage unit
\* ------------------------------------------------------------------------
\* main.py puts the prosumers and the producers on the broadcast list
BroadcastList == {"h2", "p1"}

\* requests for an environment update sent so far: one by the startup
\* coordinator, one at the end of every round
EnvRequested == round_counter

\* UpdateListener.run on one request, and RoundReceiver.run of everyone on
\* the list on the update it gets: a report is on its way to the coordinator
EnvBroadcast ==
    /\ env_served < EnvRequested
    /\ env_served' = env_served + 1
    /\ report_pending' = [a \in DOMAIN report_pending |-> report_pending[a] + 1]
    /\ UNCHANGED <<pc, now, wake_ts, round_id, round_start_ts, round_deadline_ts,
                   clockVars, knownVars, storeVars, ledgerVars, auction_log,
                   configVars, roundVars, extVars, rounds_data, sent,
                   recv_budget, round_limit, failure_watch, recv_note,
                   storage_unit>>

\* the coordinator receives a report that is on its way
ReportDeliver(a) ==
    /\ a \in DOMAIN report_pending
    /\ report_pending[a] > 0
    /\ IF a \in Households
       THEN \E data \in StatusData(a) : RecvStatusReport(a, data)
       ELSE RecvProductionReport(a, Reported(500))

InitProgress ==
    /\ InitRunningWith(Households, {"p1"}, {})
    /\ recv_budget = Cardinality(BroadcastList) * (MaxRounds + 1)
    /\ round_limit = MaxRounds
    /\ households_state = [h \in Households |-> CHOOSE d \in StatusData(h) : TRUE]
    /\ producers_state = <<[k |-> "p1", v |-> Reported(500)]>>
    /\ storage_state = <<>>
    /\ storage_unit = <<>>
    /\ env_served = 0
    /\ report_pending = [a \in BroadcastList |-> 0]
    /\ transmission_limit_kw = TRANSMISSION_LIMIT_KW
    /\ agent_limits = NoLimits
    /\ producer_failure_probability = 0
    /\ failure_rounds_range = <<1, 1>>

RoundLoop ==
    \/ StartRound
    \/ BarrierSync
    \/ ClassifySellers
    \/ ClassifyBuyersAndCFP
    \/ Matching
    \/ ExternalGrid(TRUE, 10, 30)
    \/ RecordRound
    \/ AdvanceTime

ReportDelivery == \E a \in BroadcastList : ReportDeliver(a)

NextProgress ==
    \/ RoundLoop
    \/ Tick
    \/ EnvBroadcast
    \/ ReportDelivery

\* every agent gets its turn, every message is delivered, time passes
SpecProgress ==
    /\ InitProgress
    /\ [][NextProgress]_vars
    /\ WF_vars(RoundLoop)
    /\ WF_vars(Tick)
    /\ WF_vars(EnvBroadcast)
    /\ \A a \in BroadcastList : WF_vars(ReportDeliver(a))

\* ------------------------------------------------------------------------
\* C15  Round progress
\* ------------------------------------------------------------------------
\* round n has started / has its performance record
RoundStarted(n) == round_counter = n /\ pc = "sync"
RoundRecorded(n) == Len(rounds_data) >= n

\* C15: with every agent and the delivery of messages weakly fair, and every
\* household and producer on the broadcast list answering each
\* environment_update with one report, every started round reaches its
\* performance record and is followed by a new round.
C15_RoundProgress ==
    /\ \A n \in 1..MaxRounds : RoundStarted(n) ~> RoundRecorded(n)
    /\ \A n \in 1..(MaxRounds - 1) : RoundRecorded(n) ~> RoundStarted(n + 1)

\* what does hold: a round some report was credited to reaches its record
C15_CreditedRoundProgress ==
    \A n \in 1..MaxRounds :
        (RoundStarted(n) /\ SeenThisRound # {}) ~> RoundRecorded(n)

\* the status wait of a round whose answers all came in before it started:
\* nothing is on its way and nobody is credited
C15_Stuck ==
    /\ pc = "sync"
    /\ SeenThisRound = {}
    /\ env_served = EnvRequested
    /\ \A a \in BroadcastList : report_pending[a] = 0
    /\ now - round_start_ts >= STATUS_GRACE_S


\* ------------------------------------------------------------------------
\* C16  Deterministic matching
\* ------------------------------------------------------------------------
\* the same offers in every order of arrival, at any time of arrival
OfferArrivalOrders(offers) ==
    LET n == Len(offers)
        entries == UNION {{[k |-> offers[i].k, v |-> [offers[i].v EXCEPT !.ts = t]] :
                              t \in {offers[i].v.ts, round_id}} : i \in 1..n}
    IN  {q \in [1..n -> entries] :
            \A i \in 1..n : \E j \in 1..n : q[j].k = offers[i].k}

\* the allocations and the notifications matching makes of a ledger of offers
MatchOutcome(offers) ==
    LET m == RunMatching(offers, RoundGet(requests_round, round_id, <<>>), round_id)
    IN  [matches |-> m.matches, sent |-> m.sent]

\* C16: the allocations and notifications of a round depend on the ordered
\* requests, the set of offers (seller, offer_kwh, price), the role limits
\* and the transmission limit only: matching the same offers in any other
\* order of arrival gives the sequence the round has produced.
C16_DeterministicMatching ==
    pc = "external_grid" =>
        \A q \in OfferArrivalOrders(CurrentOffers) :
            /\ MatchOutcome(q).matches = matches
            /\ MatchOutcome(q).sent = MatchOutcome(CurrentOffers).sent

\* two offers at the same price, arrived against the order of their names,
\* both used
C16_Witness ==
    /\ pc = "external_grid"
    /\ Len(CurrentOffers) = 2
    /\ CurrentOffers[1].v.price = CurrentOffers[2].v.price
    /\ JidRank[CurrentOffers[1].k] > JidRank[CurrentOffers[2].k]
    /\ \A i \in 1..2 : \E j \in 1..Len(matches) : matches[j].seller = CurrentOffers[i].k


\* ------------------------------------------------------------------------
\* C17  Per-agent capacity
\* ------------------------------------------------------------------------
\* C17: in every round, a seller with a sell-side effective_limit delivers no
\* more than that limit through internal allocations, and a buyer with a
\* buy-side effective_limit receives, internal allocations and external-grid
\* delivery together, no more than min(need_kwh, effective_limit).
C17_PerAgentCapacity ==
    MatchingDone =>
        /\ \A s \in DictKeys(CurrentOffers) :
              EffectiveLimit(s, "sell") # NoLimit =>
                  AllocatedFrom(s) <= EffectiveLimit(s, "sell")
        /\ \A b \in DictKeys(reqs) :
              EffectiveLimit(b, "buy") # NoLimit =>
                  AllocatedTo(b) + ExternalTo(b) <=
                      Min(DictGet(reqs, b).need_kwh, EffectiveLimit(b, "buy"))

\* a buyer whose limit lies below its need, filled up to the limit by an
\* internal allocation and the external grid together, from a seller that
\* has a limit too
C17_Witness ==
    /\ pc = "record"
    /\ \E b \in DictKeys(reqs) :
          /\ EffectiveLimit(b, "buy") # NoLimit
          /\ EffectiveLimit(b, "buy") < DictGet(reqs, b).need_kwh
          /\ AllocatedTo(b) > 0
          /\ ExternalTo(b) > 0
          /\ AllocatedTo(b) + ExternalTo(b) = EffectiveLimit(b, "buy")
    /\ \E s \in DictKeys(CurrentOffers) :
          /\ EffectiveLimit(s, "sell") # NoLimit
          /\ AllocatedFrom(s) > 0

\* a seller whose offer exceeds its limit, used up to the limit
SellerAtLimit ==
    /\ MatchingDone
    /\ \E s \in DictKeys(CurrentOffers) :
          /\ EffectiveLimit(s, "sell") # NoLimit
          /\ DictGet(CurrentOffers, s).offer_kwh > EffectiveLimit(s, "sell")
          /\ AllocatedFrom(s) = EffectiveLimit(s, "sell")


\* ------------------------------------------------------------------------
\* C18  Emergency-only selling
\* ------------------------------------------------------------------------
\* the calls for offers of the current round
CurrentCFPs ==
    {i \in 1..Len(sent) : sent[i].type = "call_for_offers" /\ sent[i].round_id = round_id}

\* the round's call for offers went out saying that a producer has failed
CFPSaysFailed == \E i \in CurrentCFPs : sent[i].flag

EmergencyUnits == {s \in DOMAIN storage_unit : storage_unit[s].emergency_only}

\* C18: an emergency-only storage unit is the seller of an allocation of
\* round R only if any_producer_failed was true when the call for offers of
\* R was issued; in a round whose call for offers carries producers_failed =
\* false such a unit has no offer in offers[R].
C18_EmergencyOnlySelling ==
    /\ [](\A s \in EmergencyUnits :
             (DictHas(CurrentOffers, s) \/ AllocatedFrom(s) > 0) => CFPSaysFailed)
    /\ [][pc = "classify_buyers" /\ pc' = "matching" =>
             \A i \in 1..Len(sent') :
                 sent'[i].type = "call_for_offers" => sent'[i].flag = any_producer_failed]_vars

\* an emergency-only unit has sold in a round called with a producer down
C18_Witness ==
    /\ MatchingDone
    /\ CFPSaysFailed
    /\ \E s \in EmergencyUnits : DictHas(CurrentOffers, s) /\ AllocatedFrom(s) > 0

\* an emergency-only unit was called in a round without a failure, holding
\* more than its reserve, and the offer window has closed without its offer
EmergencyUnitHeldBack ==
    /\ MatchingDone
    /\ ~CFPSaysFailed
    /\ \E s \in EmergencyUnits :
          /\ \E i \in CurrentCFPs : sent[i].to = s
          /\ 5 * storage_unit[s].soc_kwh > storage_unit[s].cap_kwh
          /\ ~DictHas(CurrentOffers, s)


\* ------------------------------------------------------------------------
\* C19  Blackout flag
\* ------------------------------------------------------------------------
\* C19 (as claimed): a round is recorded as a blackout round if and only if
\* the average of the fulfillment percentages of its buyers is below 99.0 %.
C19_BlackoutByAverage ==
    \A i \in 1..Len(rounds_data) :
        rounds_data[i].blackout <=> AvgFulfillmentBelow99(rounds_data[i].buyer_fulfillment)

\* C19 (blackout flag), as the code has it: a round is recorded as a blackout
\* round if and only if at least one of its buyers has a fulfillment
\* percentage below 99.0 %; a round without buyers is no blackout round.
C19_BlackoutBySomeBuyer ==
    \A i \in 1..Len(rounds_data) :
        LET bf == rounds_data[i].buyer_fulfillment
        IN  /\ rounds_data[i].blackout <=>
                  \E b \in DOMAIN bf : bf[b].need = 0 \/ 100 * bf[b].recv < 99 * bf[b].need
            /\ rounds_data[i].blackout_impacted =
                  Cardinality({b \in DOMAIN bf :
                                  bf[b].need = 0 \/ 100 * bf[b].recv < 99 * bf[b].need})

\* a recorded blackout round whose average fulfillment is not below 99 %:
\* one buyer fully served, the other at 3.0 of 3.05 kWh
C19_Witness ==
    /\ Len(rounds_data) = 1
    /\ rounds_data[1].blackout
    /\ ~rounds_data[1].avg_below_99
    /\ Cardinality(DOMAIN rounds_data[1].buyer_fulfillment) = 2

\* a recorded round without buyers: average 0.0, no blackout
NoBuyersNoBlackout ==
    /\ Len(rounds_data) = 1
    /\ DOMAIN rounds_data[1].buyer_fulfillment = {}
    /\ ~rounds_data[1].blackout


\* ------------------------------------------------------------------------
\* C20  Phase order
\* ------------------------------------------------------------------------
\* a neighbourhood without households: a producer and the storage unit,
\* reporting at any moment; a producer at a standstill and a full
\* emergency-only unit leave nobody to invite
InitPhases ==
    /\ InitRunningWith({}, {"p1"}, Storages)
    /\ NoPeers
    /\ recv_budget = MaxRecv
    /\ round_limit = MaxRounds
    /\ households_state = <<>>
    /\ producers_state \in {<<[k |-> "p1", v |-> d]>> : d \in ProductionData}
    /\ storage_state \in {[s \in Storages |-> d] : d \in BatteryData}
    /\ transmission_limit_kw = TRANSMISSION_LIMIT_KW
    /\ agent_limits = NoLimits
    /\ producer_failure_probability = 0
    /\ failure_rounds_range = <<1, 1>>

NextPhases ==
    \/ RoundLoop
    \/ Tick
    \/ \E data \in ProductionData : RecvProductionReport("p1", data)
    \/ \E s \in Storages : \E data \in BatteryData : RecvStatusBattery(s, data)
    \/ InOfferWindow /\ RecvEnergyOffer("p1", round_id, 200, 20)

SpecPhases == InitPhases /\ [][NextPhases]_vars

\* the phase that follows each phase of the round loop
NextPhase ==
    [ph \in {"round_start", "sync", "classify_sellers", "classify_buyers",
             "matching", "external_grid", "record", "advance"} |->
        CASE ph = "round_start" -> "sync"
          [] ph = "sync" -> "classify_sellers"
          [] ph = "classify_sellers" -> "classify_buyers"
          [] ph = "classify_buyers" -> "matching"
          [] ph = "matching" -> "external_grid"
          [] ph = "external_grid" -> "record"
          [] ph = "record" -> "advance"
          [] ph = "advance" -> "round_start"]

\* the phases follow each other in the order of the loop, none left out
PhasesInOrder == pc' # pc => pc' = NextPhase[pc]

\* the step that ends classification sends the call for offers to everybody
\* eligible and opens a wait of OFFERS_TIMEOUT
CFPAndWait ==
    /\ CurrentCFPs' # {}
    /\ {sent'[i].to : i \in CurrentCFPs'} = sellers \cup BuyerSet
    /\ round_deadline_ts' = now + OFFERS_TIMEOUT
    /\ wake_ts' >= now + OFFERS_TIMEOUT

\* matching runs once the wait that followed the call for offers is over
MatchingAfterWait ==
    pc = "matching" /\ pc' = "external_grid" /\ CurrentCFPs # {} =>
        now >= round_deadline_ts

\* one record per round and nowhere else; then the time advance and one
\* request for an environment update with the advanced hour
RecordAndAdvance ==
    /\ rounds_data' # rounds_data =>
          /\ pc = "record"
          /\ Len(rounds_data') = Len(rounds_data) + 1
          /\ rounds_data'[Len(rounds_data')].round_num = round_counter
    /\ pc = "record" /\ pc' # pc => rounds_data' # rounds_data
    /\ pc = "advance" /\ pc' # pc =>
          /\ round_counter' = round_counter + 1
          /\ sim_hour' = (sim_hour + 1) % 24
          /\ sent' = Append(sent, EnvRequest(sim_hour'))
    /\ pc # "advance" => <<round_counter, sim_hour>>' = <<round_counter, sim_hour>>

\* C20 (as claimed): the steps of a round occur exactly once and in the
\* order status synchronization, failure step, classification, call for
\* offers followed by the offers wait, matching, external grid, one round
\* record, time advance, one environment-update request with the advanced
\* hour; matching never starts before the offers wait has elapsed and no
\* phase is skipped.
C20_PhaseOrderClaimed ==
    [][/\ PhasesInOrder
       /\ pc = "classify_buyers" /\ pc' = "matching" => CFPAndWait
       /\ MatchingAfterWait
       /\ RecordAndAdvance]_vars

\* C20 (phase order), as the code has it: the same order, with the call for
\* offers and the offers wait made only when at least one participant is
\* eligible as seller or buyer; when nobody is, nothing is sent, no wait is
\* made and matching follows classification at once.
C20_PhaseOrder ==
    [][/\ PhasesInOrder
       /\ pc = "classify_buyers" /\ pc' = "matching" =>
             IF sellers \cup BuyerSet # {}
             THEN CFPAndWait
             ELSE sent' = sent /\ wake_ts' = now
                  /\ round_deadline_ts' = round_deadline_ts
       /\ MatchingAfterWait
       /\ RecordAndAdvance]_vars

\* the second round has gone through a call for offers and its wait, the
\* first one being recorded
C20_Witness ==
    /\ pc = "external_grid"
    /\ round_counter = 2
    /\ Len(rounds_data) = 1
    /\ CurrentCFPs # {}
    /\ now >= round_deadline_ts
    /\ sent[Len(sent)].type # "request_environment_update"

\* the round reached matching without a call for offers
NoCFPRound == pc = "matching" /\ CurrentCFPs = {}


\* ------------------------------------------------------------------------
\* C21  Derived failure flag
\* ------------------------------------------------------------------------
\* C21: between the coordinator's atomic steps, any_producer_failed is true
\* if and only if some producer of the store has is_operational = false.
C21_DerivedFailureFlag ==
    any_producer_failed <=>
        \E p \in DictKeys(producers_state) : ~DictGet(producers_state, p).is_operational

\* the flag is down again: a producer was taken offline, has sent as many
\* reports as the failure lasts and is back, nobody else being offline
C21_Witness ==
    /\ ~any_producer_failed
    /\ \E p \in Producers :
          /\ failure_watch[p].k > 0
          /\ failure_watch[p].reports >= failure_watch[p].k
          /\ DictGet(producers_state, p).is_operational

\* the flag is up with the second producer of the store offline and a
\* report of the first one received since
FlagUpAfterOtherReport ==
    /\ any_producer_failed
    /\ ~DictGet(producers_state, "p2").is_operational
    /\ "p1" \in SeenThisRound
    /\ pc = "sync"


\* ------------------------------------------------------------------------
\* C22  Rejected offers and the audit log
\* ------------------------------------------------------------------------
\* offers of the producers for any announced round, with failures
NextRejected ==
    \/ RoundSteps
    \/ \E p \in Producers : RecvProductionReport(p, Reported(500))
    \/ \E a \in Producers : \E rid \in AnnouncedRids : RecvEnergyOffer(a, rid, 200, 20)

SpecRejected == InitMarket /\ [][NextRejected]_vars

\* the step is the reception of an offer the receiver does not store
RejectedOfferStep(a, rid) ==
    /\ RecvEnergyOffer(a, rid, 200, 20)
    /\ recv_note' # "stored"

LateEvent(a, rid) == Event("late", a, 200, 0, NoPeer, 20, rid)

OfflineOfferUnlogged ==
    /\ recv_note \in {"offline", "offline_in_window"}
    /\ \A i \in 1..Len(auction_log) : auction_log[i].event # "late"


\* ------------------------------------------------------------------------
\* C23  Seller and buyer classification
\* ------------------------------------------------------------------------
\* households in deficit, in surplus and in balance
ClassifyStatusData ==
    {[is_prosumer |-> prod > 0, demand_kwh |-> demand, prod_kwh |-> prod,
      battery_kwh |-> 0] :
        <<demand, prod>> \in {<<300, 0>>, <<100, 400>>, <<200, 200>>}}

\* production at, just above and well above the 0.01 kWh threshold
ClassifyProductionData == {Reported(prod) : prod \in {1, 2, 500}}

\* units of either kind with charges around 20 %, 95 % and 99 % of capacity
ClassifyBatteryData ==
    {[soc_kwh |-> soc, cap_kwh |-> STORAGE_CAPACITY_KWH, emergency_only |-> e] :
        soc \in {1000, 1050, 4700, 4750, 4900, 4950}, e \in BOOLEAN}

InitClassify ==
    /\ InitRunning
    /\ NoPeers
    /\ recv_budget = 2
    /\ round_limit = MaxRounds
    /\ households_state \in
          {[h \in Households |-> IF h = "h1" THEN d ELSE e] :
              d \in ClassifyStatusData,
              e \in {x \in ClassifyStatusData : x.prod_kwh >= x.demand_kwh}}
    /\ producers_state \in
          {<<[k |-> "p1", v |-> Reported(500)], [k |-> "p2", v |-> d]>> :
              d \in ClassifyProductionData}
    /\ storage_state \in {[s \in Storages |-> d] : d \in ClassifyBatteryData}
    /\ transmission_limit_kw = TRANSMISSION_LIMIT_KW
    /\ agent_limits = NoLimits
    /\ producer_failure_probability = 20
    /\ failure_rounds_range = <<1, 1>>

\* reports may change the stores at any moment, also between the two
\* halves of the classification
NextClassify ==
    \/ RoundSteps
    \/ \E data \in ClassifyStatusData : RecvStatusReport("h1", data)
    \/ \E p \in Producers : RecvProductionReport(p, Reported(500))
    \/ \E s \in Storages : \E data \in ClassifyBatteryData : RecvStatusBattery(s, data)

SpecClassify == InitClassify /\ [][NextClassify]_vars

\* the seller rules of the specification over the stores as they are now
EligibleSellers ==
    {p \in Producers : DictHas(producers_state, p)
        /\ DictGet(producers_state, p).is_operational
        /\ DictGet(producers_state, p).prod_kwh > 1}
    \cup {h \in DOMAIN households_state :
            households_state[h].prod_kwh > households_state[h].demand_kwh}
    \cup {s \in DOMAIN storage_state :
            /\ ~storage_state[s].emergency_only
            /\ 100 * storage_state[s].soc_kwh >= 95 * storage_state[s].cap_kwh}
    \cup {s \in DOMAIN storage_state :
            /\ storage_state[s].emergency_only
            /\ any_producer_failed
            /\ 100 * storage_state[s].soc_kwh > 20 * storage_state[s].cap_kwh}

\* the buyer rules of the specification over the stores as they are now
EligibleBuyers ==
    {h \in DOMAIN households_state :
        households_state[h].demand_kwh > households_state[h].prod_kwh}
    \cup {s \in DOMAIN storage_state :
            /\ ~storage_state[s].emergency_only
            /\ 100 * storage_state[s].soc_kwh < 95 * storage_state[s].cap_kwh}
    \cup {s \in DOMAIN storage_state :
            /\ storage_state[s].emergency_only
            /\ 100 * storage_state[s].soc_kwh < 99 * storage_state[s].cap_kwh
            /\ ~any_producer_failed}

\* the agents the call for offers of the current round went to
Invited == {sent[i].to : i \in {j \in 1..Len(sent) :
                                   /\ sent[j].type = "call_for_offers"
                                   /\ sent[j].round_id = round_id}}

\* C23 (classification): the seller set the coordinator computes is exactly
\* the set the seller rules give over the stores at that instant (operational
\* producers above 0.01 kWh, households in surplus, ordinary units at 95 %
\* or more, emergency-only units above 20 % while a producer is down), and
\* the agents it invites besides are exactly those the buyer rules give over
\* the stores at the instant of the buyer classification (households in
\* deficit, ordinary units below 95 %, emergency-only units below 99 % while
\* no producer is down).
C23_Classification ==
    [][/\ ClassifySellers =>
            /\ sellers' = EligibleSellers
            /\ RoundGet(invited_round', round_id, {}) = EligibleSellers
       /\ ClassifyBuyersAndCFP =>
            Invited' = sellers \cup EligibleBuyers]_vars

\* a round whose seller set holds a producer, a household and the storage
\* unit and whose invitation reached a household in deficit
C23_Witness ==
    /\ pc = "matching"
    /\ sellers = {"p1", "h2", "s1"}
    /\ "p2" \notin sellers /\ DictGet(producers_state, "p2").is_operational
    /\ Invited = sellers \cup {"h1"}

\* the unit was classified as a seller while a producer was down and as a
\* buyer once the producer was back
SellerAndBuyerUnit ==
    /\ pc = "matching"
    /\ "s1" \in sellers
    /\ "s1" \in EligibleBuyers
    /\ storage_state["s1"].emergency_only

\* ------------------------------------------------------------------------
\* C24  The call for offers
\* ------------------------------------------------------------------------
\* the calls for offers a step adds to the coordinator's outbox
NewCFPs == {i \in (Len(sent) + 1)..Len(sent') : sent'[i].type = "call_for_offers"}

\* the step sends one call for offers to each member of the eligible union
\* and nothing else, each with the round id, the deadline just set and the
\* failure flag as it is during the step
BroadcastTo(eligible) ==
    /\ Len(sent') = Len(sent) + Cardinality(eligible)
    /\ SubSeq(sent', 1, Len(sent)) = sent
    /\ NewCFPs = (Len(sent) + 1)..Len(sent')
    /\ \A a \in eligible : Cardinality({i \in NewCFPs : sent'[i].to = a}) = 1
    /\ \A i \in NewCFPs :
          /\ sent'[i].to \in eligible
          /\ sent'[i].round_id = round_id
          /\ sent'[i].kw = round_deadline_ts'
          /\ sent'[i].flag = any_producer_failed

\* C24 (call for offers): in a round whose eligible union (sellers and
\* buyers) is not empty, the step that closes the classification sends
\* exactly one call_for_offers to each member of the union and to nobody
\* else, each carrying the current round id, the round deadline and
\* producers_failed equal to any_producer_failed at that moment; no other
\* step of the round sends a call_for_offers, and a round with an empty
\* union sends none.
C24_CFPBroadcast ==
    [][/\ ClassifyBuyersAndCFP => BroadcastTo(sellers \cup EligibleBuyers)
       /\ ~ClassifyBuyersAndCFP => (sent' = <<>> \/ NewCFPs = {})]_vars

\* four agents were invited in a round in which a producer was down, each
\* once, and the producer has recovered since
C24_Witness ==
    /\ pc = "matching"
    /\ Cardinality(Invited) = 4
    /\ Cardinality(CurrentCFPs) = 4
    /\ \A i \in CurrentCFPs : sent[i].flag /\ sent[i].kw = round_deadline_ts
    /\ ~any_producer_failed

\* a round that invited nobody
NobodyInvited ==
    /\ pc = "matching"
    /\ round_id # NoRound
    /\ CurrentCFPs = {}

\* ------------------------------------------------------------------------
\* C25  The failure step
\* ------------------------------------------------------------------------
\* the failure controller under every kind of failure probability: never,
\* sometimes, always
InitTrigger ==
    /\ InitRunning
    /\ NoPeers
    /\ recv_budget = MaxRecv
    /\ round_limit = MaxRounds
    /\ households_state = <<>>
    /\ producers_state = <<[k |-> "p1", v |-> Reported(500)],
                           [k |-> "p2", v |-> Reported(500)]>>
    /\ storage_state \in {[s \in Storages |-> d] : d \in BatteryData}
    /\ transmission_limit_kw = TRANSMISSION_LIMIT_KW
    /\ agent_limits = NoLimits
    /\ producer_failure_probability \in {0, 20, 100}
    /\ failure_rounds_range = <<1, MaxFailureRounds>>

SpecTrigger == InitTrigger /\ [][NextFailure]_vars

\* the step that holds the failure step
FailureStep == pc = "sync" /\ pc' = "classify_sellers"

\* the producer at position i has been marked offline for d rounds, nothing
\* else in the store has changed
MarkedOffline(i, d) ==
    /\ Len(producers_state') = Len(producers_state)
    /\ \A j \in 1..Len(producers_state) :
          j # i => producers_state'[j] = producers_state[j]
    /\ producers_state'[i].k = producers_state[i].k
    /\ ~producers_state'[i].v.is_operational
    /\ producers_state'[i].v.prod_kwh = 0
    /\ producers_state'[i].v.failure_rounds_remaining = d
    /\ producers_state'[i].v.failure_rounds_total = d

\* C25 (failure step): the failure step leaves producers_state as it is
\* when no storage unit is at 99 % of its capacity or more, or when a
\* producer is already offline; otherwise it leaves it as it is or marks
\* exactly one producer offline, a producer that was operational, with
\* prod_kwh = 0 and failure_rounds_remaining = failure_rounds_total = d for
\* a d within the configured range, every other producer unchanged; when
\* every draw succeeds the producer marked is the first operational one in
\* insertion order, and when none can succeed nobody is marked.
C25_FailureStep ==
    [][FailureStep =>
         IF \/ ~\E s \in DOMAIN storage_state :
                   100 * storage_state[s].soc_kwh >= 99 * storage_state[s].cap_kwh
            \/ \E i \in 1..Len(producers_state) : ~producers_state[i].v.is_operational
         THEN producers_state' = producers_state
         ELSE \/ /\ producers_state' = producers_state
                 /\ producer_failure_probability < 100
              \/ /\ producer_failure_probability > 0
                 /\ \E i \in 1..Len(producers_state) :
                       \E d \in failure_rounds_range[1]..failure_rounds_range[2] :
                          /\ producers_state[i].v.is_operational
                          /\ MarkedOffline(i, d)
                          /\ producer_failure_probability >= 100 => i = 1]_vars

\* the failure step has just marked the second producer, the draw for the
\* first one having failed, for more than one round
C25_Witness ==
    /\ pc = "classify_sellers"
    /\ failure_watch["p2"].round = round_counter
    /\ failure_watch["p2"].k >= 2
    /\ DictGet(producers_state, "p1").is_operational
    /\ DictGet(producers_state, "p2") =
          [prod_kwh |-> 0, is_operational |-> FALSE,
           failure_rounds_remaining |-> failure_watch["p2"].k,
           failure_rounds_total |-> failure_watch["p2"].k]

\* a failure step has run with the storage unit full while a producer was
\* already offline
FailureStepHeldBack ==
    /\ pc = "classify_sellers"
    /\ StorageFull
    /\ \E p \in OfflineProducers : failure_watch[p].round < round_counter

\* ------------------------------------------------------------------------
\* C26  The production-report merge
\* ------------------------------------------------------------------------
\* the report of producer p, held offline with r rounds remaining, is merged
MergedWhileOffline(p, r) ==
    /\ RecvProductionReport(p, Reported(500))
    /\ IsOffline(p)
    /\ DictGet(producers_state, p).failure_rounds_remaining = r

\* C26 (production-report merge): a production report of a producer held
\* offline with failure_rounds_remaining = r > 0 lowers the counter to
\* r - 1; if r - 1 > 0 the producer stays offline with prod_kwh = 0 and its
\* failure_rounds_total as before, if r - 1 = 0 it becomes operational with
\* the prod_kwh it reports; and in every reachable state a producer with
\* is_operational = false has prod_kwh = 0.
C26_ReportMerge ==
    /\ [](\A p \in DictKeys(producers_state) :
            IsOffline(p) => DictGet(producers_state, p).prod_kwh = 0)
    /\ [][\A p \in Producers : \A r \in 1..MaxFailureRounds + 1 :
            MergedWhileOffline(p, r) =>
               LET before == DictGet(producers_state, p)
                   after == DictGet(producers_state', p)
               IN  /\ after.failure_rounds_remaining = r - 1
                   /\ r - 1 > 0 => /\ ~after.is_operational
                                   /\ after.prod_kwh = 0
                                   /\ after.failure_rounds_total =
                                         before.failure_rounds_total
                   /\ r - 1 = 0 => /\ after.is_operational
                                   /\ after.prod_kwh = 500]_vars

\* a producer failed for several rounds has reported once: it is still
\* offline, one round less remaining, with no output
C26_Witness ==
    \E p \in Producers :
        /\ failure_watch[p].k >= 2
        /\ failure_watch[p].reports = 1
        /\ DictGet(producers_state, p) =
              [prod_kwh |-> 0, is_operational |-> FALSE,
               failure_rounds_remaining |-> failure_watch[p].k - 1,
               failure_rounds_total |-> failure_watch[p].k]

\* a report has brought a failed producer back with the output it reports
BackWithReportedOutput ==
    \E p \in Producers :
        /\ failure_watch[p].k >= 1
        /\ failure_watch[p].reports = failure_watch[p].k
        /\ DictGet(producers_state, p).is_operational
        /\ DictGet(producers_state, p).prod_kwh = 500
        /\ DictGet(producers_state, p).failure_rounds_remaining = 0

\* ------------------------------------------------------------------------
\* C27  The order of the matching
\* ------------------------------------------------------------------------
\* offers at two prices a buyer can afford, under the configured
\* transmission limit and under one of 10 kWh that leaves room for more
OrderOfferData ==
    {[offer_kwh |-> o[1], price |-> o[2], ts |-> 10] :
        o \in {<<200, 18>>, <<300, 22>>, <<300, 18>>}}

OrderRequestData ==
    {[need_kwh |-> need, price_max |-> price_max] :
        need \in {400, 500}, price_max \in {30, 20}}

\* the configured transmission limit, and one of 10 kWh
OrderLimits == {TRANSMISSION_LIMIT_KW, 1000}

InitOrder ==
    \E limit_kw \in OrderLimits :
        MatchRoundWith(2, 1, ZeroExtGrid, <<>>, OrderOfferData, OrderRequestData,
                       limit_kw)

SpecOrder == InitOrder /\ [][NextMatch]_vars

\* position of a buyer in the requests of the round, in order of arrival
RequestRank(b) == CHOOSE i \in 1..Len(reqs) : reqs[i].k = b

\* the order (price, seller id) on the internal allocations
CheaperFirst(price1, seller1, price2, seller2) ==
    \/ price1 < price2
    \/ price1 = price2 /\ JidRank[seller1] < JidRank[seller2]

\* C27 (matching order): the internal allocations of a round come buyer by
\* buyer in the order in which the requests arrived; the allocations of one
\* buyer come in ascending (price, seller id) order; a buyer turns to a
\* later seller only when the earlier one is exhausted, and an allocation
\* from a seller leaves no seller the buyer can afford and that comes
\* before it in that order with more than 0.01 kWh.
C27_MatchingOrder ==
    MatchingDone =>
        /\ \A i, j \in 1..Len(matches) :
              i < j => RequestRank(matches[i].buyer) <= RequestRank(matches[j].buyer)
        /\ \A i, j \in 1..Len(matches) :
              (i < j /\ matches[i].buyer = matches[j].buyer) =>
                 /\ CheaperFirst(matches[i].price, matches[i].seller,
                                 matches[j].price, matches[j].seller)
                 /\ seller_remaining[matches[i].seller] = 0
        /\ \A j \in 1..Len(matches) : \A i \in 1..Len(CurrentOffers) :
              (/\ CurrentOffers[i].v.price <= DictGet(reqs, matches[j].buyer).price_max
               /\ CheaperFirst(CurrentOffers[i].v.price, CurrentOffers[i].k,
                               matches[j].price, matches[j].seller))
                 => seller_remaining[CurrentOffers[i].k] <= 1

\* a buyer in need of 4.00 kWh at up to 30, with 2.00 kWh offered at 18 and
\* 3.00 kWh at 22, took 2.00 kWh at 18 and then 2.00 kWh at 22, the dearer
\* seller coming first by name
C27_Witness ==
    /\ pc = "external_grid"
    /\ Len(reqs) = 1 /\ reqs[1].v = [need_kwh |-> 400, price_max |-> 30]
    /\ Len(matches) = 2
    /\ matches[1].kwh = 200 /\ matches[1].price = 18
    /\ matches[2].kwh = 200 /\ matches[2].price = 22
    /\ JidRank[matches[2].seller] < JidRank[matches[1].seller]
    /\ seller_remaining[matches[1].seller] = 0
    /\ seller_remaining[matches[2].seller] = 100

\* both buyers were served, the one whose request came first before the
\* other, against the order of their names
ServedInArrivalOrder ==
    /\ pc = "external_grid"
    /\ Len(reqs) = 2
    /\ JidRank[reqs[1].k] > JidRank[reqs[2].k]
    /\ Len(matches) = 2
    /\ matches[1].buyer = reqs[1].k
    /\ matches[2].buyer = reqs[2].k

\* ------------------------------------------------------------------------
\* C28  Greedy maximality
\* ------------------------------------------------------------------------
\* what the seller s has given to the first n buyers of the round
GivenToFirst(s, n) ==
    SumSeq([i \in 1..Len(matches) |->
               IF matches[i].seller = s /\ RequestRank(matches[i].buyer) <= n
               THEN matches[i].kwh ELSE 0], Len(matches))

\* what the seller s has left when the turn of the n-th buyer ends
LeftAfterTurn(s, n) == OfferWithinLimit(s) - GivenToFirst(s, n)

\* the n-th buyer has received all it may receive
BuyerSatisfied(n) ==
    AllocatedTo(reqs[n].k) =
        Min(BuyerDeliverableCap(reqs[n].k, reqs[n].v.need_kwh), transmission_limit_kw)

\* C28 (greedy maximality): when the turn of a buyer ends, either the buyer
\* has received min(deliverable cap, transmission limit), or every seller
\* whose price is at most the buyer's price_max and that had more than
\* 0.01 kWh left when the turn began has nothing left.
C28_GreedyMaximality ==
    pc = "external_grid" =>
        \A n \in 1..Len(reqs) :
            \/ BuyerSatisfied(n)
            \/ \A i \in 1..Len(CurrentOffers) :
                  (/\ CurrentOffers[i].v.price <= reqs[n].v.price_max
                   /\ LeftAfterTurn(CurrentOffers[i].k, n - 1) > 1)
                     => LeftAfterTurn(CurrentOffers[i].k, n) = 0

\* the second buyer got less than it may receive: the first buyer had taken
\* part of the only offer it can afford, the second one took the rest, and
\* the other offer is too dear for it
C28_Witness ==
    /\ pc = "external_grid"
    /\ Len(reqs) = 2
    /\ ~BuyerSatisfied(2)
    /\ AllocatedTo(reqs[2].k) > 0
    /\ AllocatedTo(reqs[1].k) > 0
    /\ \E i, j \in 1..Len(CurrentOffers) :
          /\ CurrentOffers[i].v.price <= reqs[2].v.price_max
          /\ LeftAfterTurn(CurrentOffers[i].k, 1) > 1
          /\ LeftAfterTurn(CurrentOffers[i].k, 2) = 0
          /\ CurrentOffers[j].v.price > reqs[2].v.price_max

\* a buyer got less than it may receive while an offer of 0.01 kWh it can
\* afford was left untouched
CrumbLeft ==
    /\ pc = "external_grid"
    /\ \E n \in 1..Len(reqs) : \E i \in 1..Len(CurrentOffers) :
          /\ ~BuyerSatisfied(n)
          /\ AllocatedTo(reqs[n].k) > 0
          /\ CurrentOffers[i].v.price <= reqs[n].v.price_max
          /\ seller_remaining[CurrentOffers[i].k] = 1

\* ------------------------------------------------------------------------
\* C29  Acceptance notifications
\* ------------------------------------------------------------------------
\* the messages of one type the coordinator has sent for the current round
SentOfType(type) ==
    {i \in 1..Len(sent) : sent[i].type = type /\ sent[i].round_id = round_id}

\* those that come from the internal matching
InternalOfType(type) == {i \in SentOfType(type) : sent[i].peer # "external_grid"}

\* one message of the set `among` for every internal allocation, with its
\* amount and price, and no other message in the set
OnePerAllocation(among, type) ==
    /\ Cardinality(among) = Len(matches)
    /\ \A n \in 1..Len(matches) :
          LET to == IF type = "control_command" THEN matches[n].buyer
                    ELSE matches[n].seller
              peer == IF type = "control_command" THEN matches[n].seller
                      ELSE matches[n].buyer
          IN  Cardinality({i \in among : /\ sent[i].to = to
                                         /\ sent[i].peer = peer
                                         /\ sent[i].kw = matches[n].kwh
                                         /\ sent[i].price = matches[n].price}) = 1

\* the control_command carries the buyer's internal total and its need
CarriesTotals(i) ==
    /\ sent[i].total_received = AllocatedTo(sent[i].to)
    /\ sent[i].total_needed = DictGet(reqs, sent[i].to).need_kwh

\* C29 (as claimed): for every internal allocation of the round exactly one
\* control_command goes to its buyer and exactly one offer_accept to its
\* seller, with the round id, the amount and the price of the allocation;
\* no control_command and no offer_accept of the round is without an
\* allocation; every control_command of the round carries total_received
\* equal to the sum of the internal allocations of its buyer and
\* total_needed equal to the buyer's need_kwh.
C29_OnlyAllocationsNotified ==
    MatchingDone =>
        /\ OnePerAllocation(SentOfType("control_command"), "control_command")
        /\ OnePerAllocation(SentOfType("offer_accept"), "offer_accept")
        /\ \A i \in SentOfType("control_command") : CarriesTotals(i)

\* C29 (acceptance notifications), as the code has it: the internal
\* matching sends exactly one control_command to the buyer and exactly one
\* offer_accept to the seller of every internal allocation, with the round
\* id, the amount and the price of the allocation, and none without an
\* allocation; each of these control_commands carries total_received equal
\* to the sum of the internal allocations of its buyer and total_needed
\* equal to the buyer's need_kwh.  The external-grid step of the same round
\* sends further messages of both types: one control_command from
\* "external_grid" per external delivery, with the delivered amount and
\* without total_received and total_needed, and one offer_accept with buyer
\* "external_grid" per seller whose surplus is absorbed.
C29_AcceptanceNotifications ==
    MatchingDone =>
        /\ OnePerAllocation(InternalOfType("control_command"), "control_command")
        /\ OnePerAllocation(InternalOfType("offer_accept"), "offer_accept")
        /\ \A i \in InternalOfType("control_command") : CarriesTotals(i)
        /\ \A i \in SentOfType("control_command") \ InternalOfType("control_command") :
              /\ sent[i].to \in DOMAIN ext_round.delivered
              /\ sent[i].kw = ext_round.delivered[sent[i].to]
              /\ sent[i].total_received = 0 /\ sent[i].total_needed = 0
        /\ \A b \in DOMAIN ext_round.delivered :
              Cardinality({i \in SentOfType("control_command") :
                              sent[i].peer = "external_grid" /\ sent[i].to = b}) = 1
        /\ \A i \in SentOfType("offer_accept") \ InternalOfType("offer_accept") :
              /\ sent[i].to \in DOMAIN ext_round.absorbed
              /\ sent[i].kw = ext_round.absorbed[sent[i].to]
        /\ \A s \in DOMAIN ext_round.absorbed :
              Cardinality({i \in SentOfType("offer_accept") :
                              sent[i].peer = "external_grid" /\ sent[i].to = s}) = 1

\* a buyer bought from two sellers: both of its control_commands carry the
\* sum of the two amounts, and each seller got one offer_accept
C29_Witness ==
    /\ pc = "external_grid"
    /\ Len(matches) = 2
    /\ matches[1].buyer = matches[2].buyer
    /\ Cardinality(InternalOfType("control_command")) = 2
    /\ Cardinality(InternalOfType("offer_accept")) = 2
    /\ \A i \in InternalOfType("control_command") :
          /\ sent[i].total_received = matches[1].kwh + matches[2].kwh
          /\ sent[i].total_received > sent[i].kw
          /\ sent[i].total_needed = 500

\* a buyer with an internal allocation was also served by the external
\* grid: the control_command of that delivery carries no totals
ExternalCommandWithoutTotals ==
    /\ pc = "record"
    /\ \E i \in SentOfType("control_command") :
          /\ sent[i].peer = "external_grid"
          /\ AllocatedTo(sent[i].to) > 0
          /\ sent[i].total_received = 0

\* ------------------------------------------------------------------------
\* C30  External-grid delivery
\* ------------------------------------------------------------------------
\* what the claim lets the external grid deliver to a buyer that has
\* received `internal` from the internal matching
ExternalShare(b, internal) ==
    LET need_kwh == DictGet(reqs, b).need_kwh
    IN  Min(need_kwh - internal,
            Min(BuyerDeliverableCap(b, need_kwh) - internal,
                transmission_limit_kw - internal))

\* is the buyer one the external grid serves in this round?
ExternallyServed(b) ==
    /\ ext_round.available
    /\ DictGet(reqs, b).need_kwh - AllocatedTo(b) > 1
    /\ external_grid_sell_price <= DictGet(reqs, b).price_max
    /\ ExternalShare(b, AllocatedTo(b)) > 0

C30_State ==
    pc = "record" =>
        \A b \in DictKeys(reqs) :
            /\ b \in DOMAIN ext_round.delivered <=> ExternallyServed(b)
            /\ ExternalTo(b) = IF ExternallyServed(b)
                               THEN ExternalShare(b, AllocatedTo(b)) ELSE 0
            /\ buyer_fulfillment[b] =
                  [recv |-> AllocatedTo(b) + ExternalTo(b),
                   need |-> DictGet(reqs, b).need_kwh]

C30_Step ==
    (pc = "external_grid" /\ pc' = "record") =>
        ext_grid'.total_sold_kwh =
            ext_grid.total_sold_kwh
            + SumSeq([n \in 1..Len(reqs) |->
                         RoundGet(ext_round'.delivered, reqs[n].k, 0)], Len(reqs))

\* C30 (external-grid delivery): when the external grid is available, a
\* buyer whose unmet need after the internal matching exceeds 0.01 kWh is
\* served if and only if the sell price is at most its price_max and the
\* amount min(remaining need, deliverable cap - received, transmission
\* limit - received) is positive, and it receives exactly that amount; the
\* cumulative kWh sold by the grid grow by exactly the amounts delivered,
\* and the fulfillment recorded for the buyer is that of internal plus
\* external energy over need_kwh.
C30_ExternalDelivery == []C30_State /\ [][C30_Step]_vars

\* a buyer at 60 % after the internal matching, 2.00 kWh short, is
\* completed to 100 % by the external grid, which has sold 2.00 kWh
C30_Witness ==
    /\ pc = "record"
    /\ ext_grid.total_sold_kwh = 200
    /\ \E b \in DictKeys(reqs) :
          /\ DictGet(reqs, b).need_kwh = 500
          /\ AllocatedTo(b) = 300
          /\ ExternalTo(b) = 200
          /\ buyer_fulfillment[b] = [recv |-> 500, need |-> 500]

\* under the configured transmission limit the same buyer gets nothing
\* from the external grid
HeldAtTransmissionLimit ==
    /\ pc = "record"
    /\ ext_round.available
    /\ transmission_limit_kw = TRANSMISSION_LIMIT_KW
    /\ \E b \in DictKeys(reqs) :
          /\ DictGet(reqs, b).need_kwh = 500
          /\ AllocatedTo(b) = 300
          /\ external_grid_sell_price <= DictGet(reqs, b).price_max
          /\ ExternalTo(b) = 0

\* a buyer the external grid is too dear for stays short
TooDearForBuyer ==
    /\ pc = "record"
    /\ ext_round.available
    /\ \E b \in DictKeys(reqs) :
          /\ external_grid_sell_price > DictGet(reqs, b).price_max
          /\ ExternalShare(b, AllocatedTo(b)) > 1
          /\ ExternalTo(b) = 0

\* ------------------------------------------------------------------------
\* C31  External-grid absorption
\* ------------------------------------------------------------------------
IsEmergencyUnit(s) == s \in DOMAIN storage_state /\ storage_state[s].emergency_only

\* the sellers the claim has exported: more than 0.5 kWh left, not an
\* emergency-only storage unit
Exporters ==
    {s \in DOMAIN seller_remaining :
        seller_remaining[s] > 50 /\ ~IsEmergencyUnit(s)}

\* the offer_accept messages of the round that name the external grid
ExportAccepts(s) ==
    {i \in SentOfType("offer_accept") :
        sent[i].peer = "external_grid" /\ sent[i].to = s}

C31_State ==
    /\ \A i \in 1..Len(sent) :
          (sent[i].type = "offer_accept" /\ sent[i].peer = "external_grid")
              => ~IsEmergencyUnit(sent[i].to)
    /\ (pc = "record" /\ ext_round.available) =>
          \A s \in DOMAIN seller_remaining :
              IF s \in Exporters
              THEN /\ Cardinality(ExportAccepts(s)) = 1
                   /\ \A i \in ExportAccepts(s) : sent[i].kw = seller_remaining[s]
              ELSE ExportAccepts(s) = {}

C31_Step ==
    (pc = "external_grid" /\ pc' = "record" /\ ext_round'.available) =>
        ext_grid'.total_bought_kwh =
            ext_grid.total_bought_kwh + SumFn(seller_remaining, Exporters)

\* C31 (external-grid absorption): when the external grid is available,
\* every seller with more than 0.5 kWh left after the internal matching
\* that is not an emergency-only storage unit is sent exactly one
\* offer_accept with buyer external_grid for its whole remainder, nobody
\* else is sent one, and the cumulative kWh bought by the grid grow by the
\* sum of these remainders; an emergency-only storage unit is never sent an
\* offer_accept with buyer external_grid.
C31_ExternalAbsorption == []C31_State /\ [][C31_Step]_vars

\* the grid took what a seller had left after an internal sale, and took
\* nothing from the emergency-only unit, which had more than 0.5 kWh left
C31_Witness ==
    /\ pc = "record"
    /\ ext_round.available
    /\ \E s \in Exporters :
          /\ AllocatedFrom(s) > 0
          /\ ext_grid.total_bought_kwh = seller_remaining[s]
    /\ \E u \in DOMAIN seller_remaining :
          IsEmergencyUnit(u) /\ seller_remaining[u] > 50

\* ------------------------------------------------------------------------
\* Many rounds in a row: one household that reports once in every status
\* wait, nothing to trade
\* ------------------------------------------------------------------------
InitClock ==
    /\ InitRunningWith({"h1"}, {}, {})
    /\ NoPeers
    /\ recv_budget = ClockRounds
    /\ round_limit = ClockRounds
    /\ households_state \in {[h \in {"h1"} |-> d] : d \in ClassifyStatusData}
    /\ producers_state = <<>>
    /\ storage_state = <<>>
    /\ transmission_limit_kw = TRANSMISSION_LIMIT_KW
    /\ agent_limits = NoLimits
    /\ producer_failure_probability = 0
    /\ failure_rounds_range = <<1, 1>>

\* the household's report of the round, with the figures it reported before
ClockReport ==
    /\ pc = "sync"
    /\ "h1" \notin SeenThisRound
    /\ RecvStatusReport("h1", households_state["h1"])

\* time passes only when the coordinator and the household are waiting
ClockTick == ~ENABLED RoundLoop /\ ~ENABLED ClockReport /\ Tick

NextClock == RoundLoop \/ ClockTick \/ ClockReport

SpecClock == InitClock /\ [][NextClock]_vars

\* ------------------------------------------------------------------------
\* C32  The periodic summary (PerformanceTracker)
\* ------------------------------------------------------------------------
\* "Print periodic report": is a summary printed by record_round(round_num)?
SummaryDue(round_num) ==
    /\ REPORT_INTERVAL_ROUNDS > 0
    /\ round_num > 0
    /\ round_num % REPORT_INTERVAL_ROUNDS = 0

\* faulty variant: the window starts one record early
SummaryWindow_OneEarlier(data, round_num) ==
    LET start_idx == Max(0, round_num - REPORT_INTERVAL_ROUNDS - 1)
    IN  SubSeq(data, start_idx + 1, Min(round_num, Len(data)))

\* recent_data = rounds_data[start_idx:round_num] of print_periodic_summary
SummaryWindow(data, round_num) ==
    LET start_idx == Max(0, round_num - REPORT_INTERVAL_ROUNDS)
    IN  SubSeq(data, start_idx + 1, Min(round_num, Len(data)))

\* the call record_round(round_counter, round_data) of the orchestrator
RecordStep == pc = "record" /\ pc' = "advance"

\* C32 (periodic summary): record_round is called once per round, with the
\* round numbers 1, 2, 3, ..., so that the number of stored records equals
\* the round number at each call; a summary is printed exactly at the rounds
\* whose number is a positive multiple of the report interval, and its
\* window is made of exactly the records of the last report-interval
\* rounds.
C32_PeriodicSummary ==
    /\ [](Len(rounds_data) = IF pc \in {"advance"} THEN round_counter
                             ELSE round_counter - 1)
    /\ [](\A i \in 1..Len(rounds_data) : rounds_data[i].round_num = i)
    /\ [][RecordStep =>
            /\ Len(rounds_data') = Len(rounds_data) + 1
            /\ Len(rounds_data') = round_counter
            /\ SummaryDue(round_counter) <=>
                  \E k \in 1..ClockRounds : round_counter = k * REPORT_INTERVAL_ROUNDS
            /\ SummaryDue(round_counter) =>
                  LET window == SummaryWindow(rounds_data', round_counter)
                  IN  /\ Len(window) = REPORT_INTERVAL_ROUNDS
                      /\ \A i \in 1..Len(window) :
                            window[i].round_num =
                                round_counter - REPORT_INTERVAL_ROUNDS + i]_vars

\* the record of round 10 is in: the second summary is due, over rounds 6
\* to 10
C32_Witness ==
    /\ pc = "advance"
    /\ round_counter = 2 * REPORT_INTERVAL_ROUNDS
    /\ SummaryDue(round_counter)
    /\ SummaryWindow(rounds_data, round_counter)[1].round_num = REPORT_INTERVAL_ROUNDS + 1
    /\ ~SummaryDue(round_counter - 1)

\* ------------------------------------------------------------------------
\* C33  Simulated time
\* ------------------------------------------------------------------------
\* a round is completed when the loop passes "Advance simulated time"
RoundCompleted == pc = "advance" /\ pc' = "round_start"

\* hours simulated since the start, hour 7 of day 1
SimHoursElapsed == (sim_day - 1) * 24 + sim_hour - 7

\* C33 (simulated time): the run starts at hour 7 of day 1 with round
\* counter 1; every completed round raises the round counter by exactly 1
\* and the hour by 1 modulo 24, the day rising by 1 exactly when the hour
\* wraps from 23 to 0; at all times 0 <= sim_hour <= 23 and
\* (sim_day - 1) * 24 + sim_hour - 7 = round_counter - 1; nothing else
\* moves the three counters.
C33_SimulatedTime ==
    /\ (sim_hour = 7 /\ sim_day = 1 /\ round_counter = 1)
    /\ [](sim_hour \in 0..23 /\ SimHoursElapsed = round_counter - 1)
    /\ [][IF RoundCompleted
           THEN /\ round_counter' = round_counter + 1
                /\ sim_hour' = (sim_hour + 1) % 24
                /\ sim_day' = IF sim_hour = 23 /\ sim_hour' = 0
                              THEN sim_day + 1 ELSE sim_day
           ELSE UNCHANGED <<round_counter, sim_hour, sim_day>>]_vars

\* midnight has passed: round 18 starts at hour 0 of day 2
C33_Witness ==
    /\ sim_hour = 0
    /\ sim_day = 2
    /\ round_counter = 18
    /\ pc = "round_start"

\* ------------------------------------------------------------------------
\* C34  Market messages whose body lacks a field
\* ------------------------------------------------------------------------
\* "data.get(key, default)" on the parsed body of a message
BodyGet(data, key, default) == IF key \in DOMAIN data THEN data[key] ELSE default

\* the energy_request branch of Receiver.run on a parsed body
RecvRequestBody(sender, data) ==
    RecvEnergyRequest(sender, data.round_id,
                      BodyGet(data, "need_kwh", 0), BodyGet(data, "price_max", 0))

\* the energy_offer branch of Receiver.run on a parsed body
RecvOfferBody(sender, data) ==
    RecvEnergyOffer(sender, data.round_id,
                    BodyGet(data, "offer_kwh", 0), BodyGet(data, "price", 0))

\* "data = json.loads(msg.body)" raises on a body that is not JSON: the
\* call of run ends there, before any assignment
RecvUnparsable(type, sender) ==
    /\ Received(type, sender, "raised")
    /\ UNCHANGED <<pc, now, wake_ts, round_id, round_start_ts, round_deadline_ts,
                   clockVars, knownVars, storeVars, ledgerVars, auction_log,
                   configVars, roundVars, extVars, rounds_data, sent>>

\* bodies of requests and offers for round rid, complete or lacking fields
RequestBodies(rid) ==
    {[round_id |-> rid, need_kwh |-> 300, price_max |-> 30],
     [round_id |-> rid, need_kwh |-> 300],
     [round_id |-> rid, price_max |-> 30],
     [round_id |-> rid]}

OfferBodies(rid) ==
    {[round_id |-> rid, offer_kwh |-> 200, price |-> 20],
     [round_id |-> rid, offer_kwh |-> 200],
     [round_id |-> rid, price |-> 20],
     [round_id |-> rid]}

LacksField(data, keys) == \E k \in keys : k \notin DOMAIN data

NextMalformed ==
    \/ RoundSteps
    \/ pc = "sync" /\ RecvProductionReport("p1", Reported(500))
    \/ \E rid \in AnnouncedRids \cap {round_id} :
          \/ \E data \in RequestBodies(rid) : RecvRequestBody("h1", data)
          \/ \E data \in OfferBodies(rid) : RecvOfferBody("p1", data)
          \/ \E type \in MarketTypes : RecvUnparsable(type, "p2")

SpecMalformed == InitStale /\ [][NextMalformed]_vars

\* everything the coordinator holds, the ledgers and the log included
CoordinatorState ==
    <<pc, now, wake_ts, round_id, round_start_ts, round_deadline_ts, clockVars,
      knownVars, storeVars, ledgerVars, auction_log, configVars, roundVars,
      extVars, rounds_data, sent>>

MalformedStep ==
    \/ \E data \in RequestBodies(round_id) :
          LacksField(data, {"need_kwh", "price_max"}) /\ RecvRequestBody("h1", data)
    \/ \E data \in OfferBodies(round_id) :
          LacksField(data, {"offer_kwh", "price"}) /\ RecvOfferBody("p1", data)
    \/ \E type \in {"energy_request", "energy_offer"} : RecvUnparsable(type, "p2")

\* C34 as stated (protocol violations are dropped): an energy_request or
\* energy_offer for the current round whose body lacks its quantity or its
\* price field, or is not JSON, is not entered into the requests or the
\* offers of the round and leaves the coordinator's state unchanged.
C34_MalformedDropped == [][MalformedStep => UNCHANGED CoordinatorState]_vars

\* C34, what the receiver does: a body that is not JSON changes nothing;
\* a request of the current round that lacks a field is stored with 0 in
\* its place, and so is an offer that passes the offer window.
C34_MissingFieldDefaults ==
    /\ [][(\E type \in {"energy_request", "energy_offer"} : RecvUnparsable(type, "p2"))
            => UNCHANGED CoordinatorState]_vars
    /\ [][\A data \in RequestBodies(round_id) :
            (round_id # NoRound /\ RecvRequestBody("h1", data)) =>
               DictGet(RoundGet(requests_round', round_id, <<>>), "h1") =
                  [need_kwh |-> BodyGet(data, "need_kwh", 0),
                   price_max |-> BodyGet(data, "price_max", 0)]]_vars
    /\ [][\A data \in OfferBodies(round_id) :
            (RecvOfferBody("p1", data) /\ ~SenderOffline("p1") /\ OfferInWindow(round_id)) =>
               DictGet(RoundGet(offers_round', round_id, <<>>), "p1") =
                  [offer_kwh |-> BodyGet(data, "offer_kwh", 0),
                   price |-> BodyGet(data, "price", 0), ts |-> now]]_vars

\* a request without need_kwh and an offer without price are in the
\* ledgers of the round, with 0 in the place of the missing field
C34_Witness ==
    /\ round_id # NoRound
    /\ DictHas(RoundGet(requests_round, round_id, <<>>), "h1")
    /\ DictGet(RoundGet(requests_round, round_id, <<>>), "h1").need_kwh = 0
    /\ DictHas(RoundGet(offers_round, round_id, <<>>), "p1")
    /\ DictGet(RoundGet(offers_round, round_id, <<>>), "p1").price = 0
    /\ DictGet(RoundGet(offers_round, round_id, <<>>), "p1").offer_kwh = 200

\* ------------------------------------------------------------------------
\* C35  Sellers and buyers of one round
\* ------------------------------------------------------------------------
\* the two halves of the classification, with asyncio.sleep(0.2) between
SellerClassification == pc = "classify_sellers" /\ pc' = "classify_buyers"
BuyerClassification == pc = "classify_buyers" /\ pc' = "matching"

\* C35 as stated (seller and buyer sets are disjoint): in every round,
\* whatever reports arrive while the orchestrator is suspended between the
\* seller and the buyer classification, no participant is both in the
\* seller set and in the buyer set used for the call for offers.
C35_SellersBuyersDisjoint == [][BuyerClassification => sellers \cap BuyerSet = {}]_vars

\* C35, what the code gives: over one reading of the stores the seller
\* rules and the buyer rules never pick the same participant, so the two
\* sets are disjoint as long as no report has changed the stores since the
\* seller classification.
C35_DisjointOverOneReading ==
    /\ [](SellerSet \cap BuyerSet = {})
    /\ [][SellerClassification => sellers' \cap BuyerSet' = {}]_vars
    /\ [][BuyerClassification => (sellers \cap BuyerSet) \cap SellerSet = {}]_vars

\* the buyer classification is about to run, and a household that was
\* classified as a seller has reported a deficit since
C35_Witness ==
    /\ pc = "classify_buyers"
    /\ now >= wake_ts
    /\ "h1" \in sellers \cap BuyerSet

\* ------------------------------------------------------------------------
\* C36  The round a report is credited to
\* ------------------------------------------------------------------------
\* the receiver takes the report of a that was on its way
ReportFrom(a) == report_pending'[a] = report_pending[a] - 1

\* between request_environment_update and the next "R = time.time()"
AfterEnvRequest == pc = "round_start" /\ round_counter > 1

ProsumerStates ==
    {[is_prosumer |-> TRUE, demand_kwh |-> demand, prod_kwh |-> prod,
      battery_kwh |-> 0] : <<demand, prod>> \in {<<100, 400>>, <<400, 100>>}}

\* HouseholdAgent.QuickBid, run on a call for offers, and the receiver of
\* the coordinator taking what it sends: the household bids by its own
\* state, a request below -0.1 kWh net and an offer above 0.1 kWh
QuickBid(h, own) ==
    /\ h \in Invited
    /\ LET net == own.prod_kwh - own.demand_kwh
       IN  IF net < -10
           THEN RecvEnergyRequest(h, round_id, -net, 30)
           ELSE /\ net > 10
                /\ own.is_prosumer
                /\ RecvEnergyOffer(h, round_id, net, 20)

\* the coordinator knows h2 by a report that may be older than h2's state
InitMembership ==
    /\ InitRunning
    /\ NoPeers
    /\ recv_budget = MaxRecv
    /\ round_limit = MaxRounds
    /\ households_state \in
          {[h \in Households |-> IF h = "h2" THEN d ELSE CHOOSE x \in StatusData(h) : TRUE] :
              d \in ProsumerStates}
    /\ producers_state = <<[k |-> "p1", v |-> Reported(500)],
                           [k |-> "p2", v |-> Reported(500)]>>
    /\ storage_state = [s \in Storages |->
                          [soc_kwh |-> 5000, cap_kwh |-> 5000, emergency_only |-> TRUE]]
    /\ transmission_limit_kw = TRANSMISSION_LIMIT_KW
    /\ agent_limits = NoLimits
    /\ producer_failure_probability = 0
    /\ failure_rounds_range = <<1, 1>>

NextMembership ==
    \/ RoundSteps
    \/ pc = "sync" /\ RecvProductionReport("p1", Reported(500))
    \/ \E own \in ProsumerStates : QuickBid("h2", own)
    \/ pc = "matching" /\ "p1" \in Invited /\ RecvEnergyOffer("p1", round_id, 200, 20)
    \/ \E own \in ProsumerStates : pc = "matching" /\ RecvStatusReport("h2", own)

SpecMembership == InitMembership /\ [][NextMembership]_vars

\* the buyers of the round: the invited agents that are not its sellers
\* (no report is taken between the two halves of the classification here)
ClassifiedBuyers == Invited \ sellers

RoundOffers == RoundGet(offers_round, round_id, <<>>)
RoundRequests == RoundGet(requests_round, round_id, <<>>)

\* C37 as stated (ledger membership): every offer stored for the round
\* comes from a participant in invited_round of the round, so the offers
\* are never more than the invited sellers, and every stored request comes
\* from a participant classified as a buyer in the round.
C37_LedgerMembership ==
    (round_id # NoRound /\ pc \in {"matching", "external_grid", "record", "advance"}) =>
        /\ DictKeys(RoundOffers) \subseteq RoundGet(invited_round, round_id, {})
        /\ Len(RoundOffers) <= Cardinality(RoundGet(invited_round, round_id, {}))
        /\ DictKeys(RoundRequests) \subseteq ClassifiedBuyers

\* C37, what the code gives: the receiver stores the offer or the request
\* of whoever sends it for the current round, so the ledgers hold bids of
\* agents the call for offers went to, in either role.
C37_LedgerFromInvitees ==
    (round_id # NoRound /\ pc \in {"matching", "external_grid", "record", "advance"}) =>
        /\ DictKeys(RoundOffers) \cup DictKeys(RoundRequests) \subseteq Invited
        /\ invited_round[round_id] = sellers

\* h2 was invited as a buyer on a report of a deficit and has offered its
\* surplus: its offer is stored although it is not in invited_round
C37_Witness ==
    /\ pc = "matching"
    /\ "h2" \in ClassifiedBuyers
    /\ "h2" \notin invited_round[round_id]
    /\ DictHas(RoundOffers, "h2")
    /\ households_state["h2"].demand_kwh > households_state["h2"].prod_kwh

\* ------------------------------------------------------------------------
\* C38  Requests that arrive after the matching took its list
\* ------------------------------------------------------------------------
\* the receiver stores a request while the round is past its matching
LateRequestStored == MatchingDone /\ requests_round' # requests_round

NeedOf(requests) == [b \in DictKeys(requests) |-> DictGet(requests, b).need_kwh]

\* C38 (requests after the matching snapshot): a request with the current
\* round id that arrives after the matching took its list of requests is
\* stored in the requests of the round, and changes nothing else: the
\* buyers that are notified, served by the external grid, given a
\* fulfillment and counted in the total demand of the record are those of
\* the list; a new round starts with no requests; the offers of a round do
\* not change once its matching has run.
C38_RequestsAfterSnapshot ==
    /\ [][LateRequestStored =>
            /\ DictKeys(RoundGet(requests_round, round_id, <<>>))
                  \subseteq DictKeys(RoundGet(requests_round', round_id, <<>>))
            /\ \A r \in DOMAIN requests_round \ {round_id} :
                  requests_round'[r] = requests_round[r]
            /\ UNCHANGED <<roundVars, extVars, rounds_data, sent, offers_round>>]_vars
    /\ [](MatchingDone =>
            /\ \A i \in SentOfType("control_command") : sent[i].to \in DictKeys(reqs)
            /\ DOMAIN buyer_fulfillment \subseteq DictKeys(reqs)
            /\ DOMAIN ext_round.delivered \subseteq DictKeys(reqs))
    /\ [](pc = "advance" =>
            rounds_data[Len(rounds_data)].total_demand =
                SumFn(NeedOf(reqs), DictKeys(reqs)))
    /\ [][(pc = "round_start" /\ pc' = "sync") =>
            RoundGet(requests_round', round_id', <<>>) = <<>>]_vars
    /\ [][(MatchingDone \/ pc = "round_start") => offers_round' = offers_round]_vars

\* the round is recorded with no demand and nobody served, while the
\* request of h1 for 3 kWh at a price the external grid meets sits in the
\* requests of the round
C38_Witness ==
    /\ pc = "advance"
    /\ DictHas(RoundGet(requests_round, round_id, <<>>), "h1")
    /\ ~DictHas(reqs, "h1")
    /\ ext_round.available
    /\ external_grid_sell_price <= DictGet(RoundGet(requests_round, round_id, <<>>), "h1").price_max
    /\ rounds_data[Len(rounds_data)].total_demand = 0
    /\ SentOfType("control_command") = {}

\* ------------------------------------------------------------------------
\* C39  Wasted energy
\* ------------------------------------------------------------------------
LastRecord == rounds_data[Len(rounds_data)]

\* C39 (wasted energy ignores exports): the wasted energy recorded for a
\* round is the sum of the sellers' remainders after the internal matching;
\* what the external grid absorbs does not reduce the remainders, so it is
\* part of the recorded waste.
C39_WastedEnergy ==
    /\ [][(pc = "external_grid" /\ pc' = "record") =>
            seller_remaining' = seller_remaining]_vars
    /\ [][(pc = "record" /\ pc' = "advance") =>
            rounds_data'[Len(rounds_data')].wasted_energy =
                SumFn(seller_remaining, DOMAIN seller_remaining)]_vars
    /\ [](pc = "advance" =>
            /\ LastRecord.wasted_energy =
                  SumFn(seller_remaining, DOMAIN seller_remaining)
            /\ LastRecord.wasted_energy >= LastRecord.ext_grid_bought)

\* a round in which the external grid took a seller's remainder, recorded
\* with that remainder as wasted
C39_Witness ==
    /\ pc = "advance"
    /\ LastRecord.ext_grid_bought > 0
    /\ LastRecord.wasted_energy >= LastRecord.ext_grid_bought
    /\ \E s \in DOMAIN ext_round.absorbed :
          seller_remaining[s] = ext_round.absorbed[s]

\* ------------------------------------------------------------------------
\* C40  Recovery of a producer held offline
\* ------------------------------------------------------------------------
\* a full storage unit and a failure probability of 1, so that the failure
\* step marks the first operational producer of the store whenever none is
\* offline; enough receptions for one battery report a round and every
\* recovery
InitRecovery ==
    /\ InitRunning
    /\ NoPeers
    /\ recv_budget = MaxRounds * (MaxFailureRounds + 1)
    /\ round_limit = MaxRounds
    /\ households_state = <<>>
    /\ producers_state \in
          {<<[k |-> p, v |-> Reported(500)], [k |-> q, v |-> Reported(500)]>> :
              <<p, q>> \in {<<"p1", "p2">>, <<"p2", "p1">>}}
    /\ storage_state = [s \in Storages |-> CHOOSE d \in BatteryData : d.soc_kwh = 5000]
    /\ transmission_limit_kw = TRANSMISSION_LIMIT_KW
    /\ agent_limits = NoLimits
    /\ producer_failure_probability = 100
    /\ failure_rounds_range = <<1, MaxFailureRounds>>

\* the production_report of a producer the coordinator holds offline
ReportWhileOffline(p) == IsOffline(p) /\ RecvProductionReport(p, Reported(500))

\* the battery report of the storage unit in the status wait of a round
RecoveryBatteryReport ==
    /\ pc = "sync"
    /\ "s1" \notin SeenThisRound
    /\ now = round_start_ts
    /\ RecvStatusBattery("s1", CHOOSE d \in BatteryData : d.soc_kwh = 5000)

NextRecovery ==
    \/ RoundLoop
    \/ Tick
    \/ RecoveryBatteryReport
    \/ \E p \in Producers : ReportWhileOffline(p)

\* the producer keeps sending reports and the receiver takes each of them
SpecRecovery ==
    /\ InitRecovery
    /\ [][NextRecovery]_vars
    /\ \A p \in Producers : WF_vars(ReportWhileOffline(p))

RemainingOf(p) == DictGet(producers_state, p).failure_rounds_remaining

\* the receiver has taken a production_report of p while p was held offline
OfflineReportTaken(p) == failure_watch'[p].reports = failure_watch[p].reports + 1

\* C40 (recovery liveness): a producer marked offline that keeps sending
\* production reports becomes operational again; while it is offline its
\* failure_rounds_remaining is never negative and never above
\* failure_rounds_total, never increases, and goes down by exactly one with
\* each production report received from it, and with nothing else (not by
\* the passing of rounds).
C40_RecoveryLiveness ==
    /\ \A p \in Producers : IsOffline(p) ~> ~IsOffline(p)
    /\ [](\A p \in Producers : IsOffline(p) =>
            /\ RemainingOf(p) >= 0
            /\ RemainingOf(p) <= DictGet(producers_state, p).failure_rounds_total)
    /\ [][\A p \in Producers : IsOffline(p) =>
            /\ DictGet(producers_state', p).failure_rounds_remaining <= RemainingOf(p)
            /\ IF OfflineReportTaken(p)
               THEN DictGet(producers_state', p).failure_rounds_remaining
                       = RemainingOf(p) - 1
               ELSE /\ DictGet(producers_state', p).failure_rounds_remaining
                          = RemainingOf(p)
                    /\ IsOffline(p)']_vars

\* a producer marked offline for two rounds is back in the round of its
\* failure, after two reports
C40_Witness ==
    \E p \in Producers :
        /\ ~IsOffline(p)
        /\ failure_watch[p].k = MaxFailureRounds
        /\ failure_watch[p].reports = MaxFailureRounds
        /\ failure_watch[p].round = round_counter
        /\ pc \in AfterFailureStep

====
